---------------------------- MODULE Spec2Model ----------------------------
(***************************************************************************)
(* Model of the weekly trend engine of ai-intel-briefing (src/weekly.py), *)
(* and of the X cache (src/fetch_x.py), the LLM step (src/main.py), the    *)
(* RSS fetcher (src/fetch.py) and the keyword scorer (src/score.py).       *)
(*                                                                         *)
(* Python strings are sequences of one-character strings, so that strip() *)
(* and whitespace handling are computed and not assumed.  JSON values are  *)
(* tagged records [t, s] / [t, l]: t is the JSON type ("absent" when the   *)
(* key is missing from the object), s the characters of a string, l the    *)
(* elements of a list.  "num" stands for a non-zero number (truthy and not *)
(* a string, list or object).                                              *)
(*                                                                         *)
(* Floats are modelled exactly: recency weights 0.5^(age/3) live in        *)
(* Q(2^(1/3)) and are kept as integer triples over the basis (1, s, s^2),  *)
(* s = 2^(1/3), scaled by 4; slopes and shares are exact rationals.        *)
(***************************************************************************)
EXTENDS Integers, Sequences, FiniteSets, TLC

\* ------------------------------------------------------------------ bounds
\* number of date-named snapshot files the modelled directory can hold
MaxDays == 3
\* number of items in the whole window
MaxItems == 2
\* largest window size n handed to list_latest in ListSpec
MaxN == 3
\* runs of main() over one window
MaxRuns == 2
\* number of days of a window of well-formed snapshots
MaxTrendDays == 5
\* number of keys of a mapping handed to hhi_from_counts and top_share
MaxKeys == 3
\* largest topn handed to top_share
MaxTopN == 3
\* snapshots, items in all of them, and largest limit handed to pick_items_for_*
MaxPickDays == 2
MaxPickItems == 3
MaxLimit == 2
\* length of a series, and largest count in it, handed to slope and
\* delta_recent_vs_early
MaxSeriesLen == 5
MaxCount == 2
\* number of categories with a rotation row handed to the riser and faller
\* slices
MaxRot == 11

\* ----------------------------------------------------------------- strings
WS == {" "}

sMisc == <<"m","i","s","c">>
sUnknown == <<"u","n","k","n","o","w","n">>
sInfra == <<"i","n","f","r","a">>
sRss == <<"r","s","s">>
sUS == <<"U","S">>
sEEUU == <<"E","E","U","U">>
sA == <<"A">>
sB == <<"B">>
sModels == <<"m","o","d","e","l","s">>
sInvest == <<"i","n","v","e","s","t">>
sGeopol == <<"g","e","o","p","o","l">>
sOther == <<"o","t","h","e","r">>

\* characters in code-point order, for comparing strings
Alphabet == <<" ","A","B","C","D","E","F","G","H","I","J","K","L","M","S","U",
              "a","c","d","e","f","g","h","i","k","l","m","n","o","p","r","s","t",
              "u","v","w">>

Ord(c) == CHOOSE i \in 1..Len(Alphabet) : Alphabet[i] = c

RECURSIVE StrLess(_, _)
StrLess(a, b) ==
    IF a = <<>> THEN b # <<>>
    ELSE IF b = <<>> THEN FALSE
    ELSE IF Head(a) # Head(b) THEN Ord(Head(a)) < Ord(Head(b))
    ELSE StrLess(Tail(a), Tail(b))

RECURSIVE LStrip(_)
LStrip(s) == IF s # <<>> /\ Head(s) \in WS THEN LStrip(Tail(s)) ELSE s

RECURSIVE RStrip(_)
RStrip(s) ==
    IF s # <<>> /\ s[Len(s)] \in WS THEN RStrip(SubSeq(s, 1, Len(s) - 1)) ELSE s

\* str.strip()
Strip(s) == RStrip(LStrip(s))

\* re.sub(r"\s+", " ", e)
RECURSIVE CollapseWs(_)
CollapseWs(s) ==
    IF s = <<>> THEN <<>>
    ELSE IF Head(s) \in WS
         THEN <<" ">> \o CollapseWs(LStrip(s))
         ELSE <<Head(s)>> \o CollapseWs(Tail(s))

\* src/config.py ENTITY_ALIASES, restricted to the names the model uses
ENTITY_ALIASES == [k \in {sUS} |-> sEEUU]

\* src/main.py normalize_entity
normalize_entity(e) ==
    LET e1 == CollapseWs(Strip(e))
    IN IF e1 \in DOMAIN ENTITY_ALIASES THEN ENTITY_ALIASES[e1] ELSE e1

\* -------------------------------------------------------------- JSON values
Absent == [t |-> "absent", s |-> <<>>]
Null == [t |-> "null", s |-> <<>>]
Num == [t |-> "num", s |-> <<>>]
Str(s) == [t |-> "str", s |-> s]

\* Python truthiness of a scalar value: None, "" and a missing key are falsy
Truthy(v) == v.t = "num" \/ (v.t = "str" /\ v.s # <<>>)

\* -------------------------------------------------------------- file names
\* a directory entry name: stem "<y>-<m>-<d><tail>" and suffix
FileName(y, m, d, tail, suffix) ==
    [y |-> y, m |-> m, d |-> d, tail |-> tail, suffix |-> suffix]

\* datetime.min, as <<year, month, day>>
DateMin == <<1, 1, 1>>

DaysInMonth(y, m) ==
    IF m = 2 THEN (IF y % 4 = 0 /\ (y % 100 # 0 \/ y % 400 = 0) THEN 29 ELSE 28)
    ELSE IF m \in {4, 6, 9, 11} THEN 30 ELSE 31

\* parse_date: strptime(stem, "%Y-%m-%d"), datetime.min on ValueError
parse_date(p) ==
    IF /\ p.tail = ""
       /\ p.y \in 1..9999
       /\ p.m \in 1..12
       /\ p.d \in 1..DaysInMonth(p.y, p.m)
    THEN <<p.y, p.m, p.d>>
    ELSE DateMin

DateLess(a, b) ==
    \/ a[1] < b[1]
    \/ a[1] = b[1] /\ a[2] < b[2]
    \/ a[1] = b[1] /\ a[2] = b[2] /\ a[3] < b[3]

\* str.lower() on a suffix
Lower(suffix) == IF suffix = ".JSON" THEN ".json" ELSE suffix


\* the suffix of a path matched by DATA_DIR.glob("*.json") (case-sensitive)
GlobJson(p) == p.suffix = ".json"

\* ------------------------------------------------------------ file contents
\* an item of a snapshot: a JSON object (t = "dict") or any other JSON value
Item(primary, source, entities) ==
    [t |-> "dict", primary |-> primary, source |-> source, entities |-> entities]

NoList == [t |-> "absent", l |-> <<>>]
NullList == [t |-> "null", l |-> <<>>]
NumList == [t |-> "num", l |-> <<>>]
List(l) == [t |-> "list", l |-> l]

OtherItem == [t |-> "other", primary |-> Absent, source |-> Absent, entities |-> NoList]

\* the "date" value an object carries itself, as opposed to a file stem
GivenDate == [y |-> 0, m |-> 0, d |-> 0, tail |-> "given"]
NoDate == [y |-> 0, m |-> 0, d |-> 0, tail |-> "absent"]

Stem(p) == [y |-> p.y, m |-> p.m, d |-> p.d, tail |-> p.tail]

\* what a directory entry holds: a directory, text json.loads rejects, a JSON
\* value that is not an object, or an object with its "date" and "items"
DirEntry == [t |-> "dir", date |-> NoDate, items |-> NoList]
Garbage == [t |-> "garbage", date |-> NoDate, items |-> NoList]
NonObject == [t |-> "nonobj", date |-> NoDate, items |-> NoList]
Object(date, items) == [t |-> "obj", date |-> date, items |-> items]

is_file(c) == c.t # "dir"

\* ------------------------------------------------------------------- state
VARIABLES
    dirExists,            \* DATA_DIR.exists()
    dir,                  \* names of the entries of DATA_DIR
    content,              \* what each entry holds
    clock,                \* wall clock of the host
    argN,                 \* argument n of a direct list_latest(n) call
    ret,                  \* value that call returned
    pc,                   \* position of main()
    files, snapshots, n, di,
    ent_series, cat_series, source_series, total_items_per_day,
    ent_rows, cat_rows, source_rows,
    rot, risers, fallers, new_ents, breakouts, clusters, cat_clusters,
    call,                 \* a direct call of a helper function: its arguments
    out,                  \* what main() left in OUT_HTML
    runs,                 \* completed runs of main()
    prevOut,              \* OUT_HTML as the previous run left it
    \* src/fetch_x.py: the X cache file and, per process, the module globals
    cache_file,           \* _cache_file(): whether it exists and its text
    CACHE_LOADED, CACHE_DIRTY, CACHE_DATA,
    xenv,                 \* X_CACHE_DISABLE and X_CACHE_FORCE_REFRESH of each process
    xpc,                  \* where each process is inside _save_cache
    xlog,                 \* per process: reads of the file, last call and how it ended
    \* src/main.py: the day's LLM files and the runs of generate_llm_data
    llm_cache,            \* docs/data/<today>.llm_cache.json
    llm_done,             \* docs/data/<today>.llm_done exists
    lrun,                 \* the run of generate_llm_data under way
    llog,                 \* what the runs of the day did so far
    \* src/fetch.py
    rss                   \* a call of fetch_rss: where it is and what it did

vars == <<dirExists, dir, content, clock, argN, ret, pc, files, snapshots, n, di,
          ent_series, cat_series, source_series, total_items_per_day,
          ent_rows, cat_rows, source_rows, rot, risers, fallers, new_ents,
          breakouts, clusters, cat_clusters, call, out, runs, prevOut,
          cache_file, CACHE_LOADED, CACHE_DIRTY, CACHE_DATA, xenv, xpc, xlog,
          llm_cache, llm_done, lrun, llog, rss>>

fsVars == <<dirExists, dir, content>>
derived == <<rot, risers, fallers, new_ents, breakouts, clusters, cat_clusters>>
locals == <<files, snapshots, n, di, ent_series, cat_series, source_series,
            total_items_per_day, ent_rows, cat_rows, source_rows, derived>>
xVars == <<cache_file, CACHE_LOADED, CACHE_DIRTY, CACHE_DATA, xenv, xpc, xlog>>
llmVars == <<llm_cache, llm_done, lrun, llog>>
\* the state of the other programs of the repository
aux == <<xVars, llmVars, rss>>

\* no process uses the X cache
NoFile == [exists |-> FALSE, text |-> <<>>]
XIdle ==
    /\ cache_file = NoFile
    /\ CACHE_LOADED = <<>>
    /\ CACHE_DIRTY = <<>>
    /\ CACHE_DATA = <<>>
    /\ xenv = <<>>
    /\ xpc = <<>>
    /\ xlog = <<>>

\* generate_llm_data is not running
NoRun == [pc |-> "idle"]
LlmIdle ==
    /\ llm_cache = NoFile
    /\ llm_done = FALSE
    /\ lrun = NoRun
    /\ llog = <<>>

\* fetch_rss is not running
NoFetch == [pc |-> "idle"]
RssIdle == rss = NoFetch

AuxIdle == XIdle /\ LlmIdle /\ RssIdle

\* ------------------------------------------------------------- list_latest
\* the filter without its date test
is_any_json_file(p, c) == is_file(c) /\ Lower(p.suffix) = ".json"

is_daily_snapshot_file(p, c) ==
    IF ~is_file(c) \/ Lower(p.suffix) # ".json"
    THEN FALSE
    ELSE parse_date(p) # DateMin

\* files.sort(key=parse_date): the names of S in ascending date order.  The
\* names of the modelled directories that pass the filter carry distinct dates.
RECURSIVE SortByDate(_)
SortByDate(S) ==
    IF S = {} THEN <<>>
    ELSE LET first == CHOOSE p \in S :
                        \A q \in S \ {p} : DateLess(parse_date(p), parse_date(q))
         IN <<first>> \o SortByDate(S \ {first})

\* Python's xs[-k:] for k >= 0: -0 is 0, so xs[-0:] is the whole list
LastSlice(xs, k) ==
    IF k = 0 THEN xs
    ELSE SubSeq(xs, (IF Len(xs) > k THEN Len(xs) - k + 1 ELSE 1), Len(xs))

\* a window cut off by the wall clock instead of by count
list_latest_since(k) ==
    IF ~dirExists THEN <<>>
    ELSE LET kept == {p \in dir : GlobJson(p) /\ is_daily_snapshot_file(p, content[p])
                                   /\ p.d > clock}
         IN LastSlice(SortByDate(kept), k)

list_latest(k) ==
    IF ~dirExists THEN <<>>
    ELSE LET globbed == {p \in dir : GlobJson(p)}
             kept == {p \in globbed : is_daily_snapshot_file(p, content[p])}
         IN LastSlice(SortByDate(kept), k)

\* ---------------------------------------------------------------- load_day
EmptyDay(p) == [date |-> Stem(p), items |-> List(<<>>)]

\* load_day without data.setdefault("items", [])
load_day_no_default(p) ==
    LET c == content[p]
    IN IF c.t = "obj"
       THEN [date |-> IF c.date = NoDate THEN Stem(p) ELSE c.date, items |-> c.items]
       ELSE EmptyDay(p)

load_day(p) ==
    LET c == content[p]
    IN IF c.t = "obj"
       THEN [date |-> IF c.date = NoDate THEN Stem(p) ELSE c.date,
             items |-> IF c.items.t = "absent" THEN List(<<>>) ELSE c.items]
       ELSE EmptyDay(p)

\* ------------------------------------------------------------- dictionaries
\* A Python dict keeps insertion order: a sequence of [name, v] entries with
\* distinct names.
DictHas(dct, k) == \E i \in 1..Len(dct) : dct[i].name = k
DictIdx(dct, k) == CHOOSE i \in 1..Len(dct) : dct[i].name = k
DictKeys(dct) == {dct[i].name : i \in 1..Len(dct)}

\* dct[k] = dct.get(k, 0) + 1
DictInc(dct, k) ==
    IF DictHas(dct, k)
    THEN [dct EXCEPT ![DictIdx(dct, k)].v = @ + 1]
    ELSE Append(dct, [name |-> k, v |-> 1])

Zeros(len) == [i \in 1..len |-> 0]

\* a new key's series started at the day the key is first seen
SeriesSetFromFirstDay(dct, k, len, day, v) ==
    IF DictHas(dct, k)
    THEN [dct EXCEPT ![DictIdx(dct, k)].v[day] = v]
    ELSE Append(dct, [name |-> k, v |-> [Zeros(len - day + 1) EXCEPT ![1] = v]])

\* dct.setdefault(k, [0] * len)[day] = v
SeriesSet(dct, k, len, day, v) ==
    IF DictHas(dct, k)
    THEN [dct EXCEPT ![DictIdx(dct, k)].v[day] = v]
    ELSE Append(dct, [name |-> k, v |-> [Zeros(len) EXCEPT ![day] = v]])

RECURSIVE MergeLocal(_, _, _, _, _)
MergeLocal(dct, local, len, day, i) ==
    IF i > Len(local) THEN dct
    ELSE MergeLocal(SeriesSet(dct, local[i].name, len, day, local[i].v),
                    local, len, day, i + 1)

\* ---------------------------------------------------------- series builder
\* snap.get("items", []) or []
ItemsOf(snap) == IF snap.items.t = "list" THEN snap.items.l ELSE <<>>

\* len(items) raises TypeError on a number
ItemsRaise(snap) == snap.items.t = "num"

\* (it.get("primary") or "misc"): the value .strip() is then called on
PrimaryOrMisc(it) == IF Truthy(it.primary) THEN it.primary ELSE Str(sMisc)
SourceOrUnknown(it) == IF Truthy(it.source) THEN it.source ELSE Str(sUnknown)

\* cat = (it.get("primary") or "misc").strip()
CatKey(it) == Strip(PrimaryOrMisc(it).s)

\* src = (it.get("source") or "unknown").strip() or "unknown"
SourceKey(it) ==
    LET s == Strip(SourceOrUnknown(it).s) IN IF s = <<>> THEN sUnknown ELSE s

\* (it.get("entities") or [])
EntitiesOf(it) == IF it.entities.t = "list" THEN it.entities.l ELSE <<>>

\* the statements of the item loop body that raise: .strip() on a value that is
\* no string (AttributeError), iteration over a number (TypeError)
ItemRaises(it) ==
    /\ it.t = "dict"
    /\ \/ PrimaryOrMisc(it).t # "str"
       \/ SourceOrUnknown(it).t # "str"
       \/ it.entities.t = "num"

\* for e in entities: if isinstance(e, str) and e.strip(): local_ent[e.strip()] += 1
RECURSIVE TallyEntities(_, _, _)
TallyEntities(local_ent, es, i) ==
    IF i > Len(es) THEN local_ent
    ELSE LET e == es[i]
         IN IF e.t = "str" /\ Strip(e.s) # <<>>
            THEN TallyEntities(DictInc(local_ent, Strip(e.s)), es, i + 1)
            ELSE TallyEntities(local_ent, es, i + 1)

NoTally == [raised |-> FALSE, ent |-> <<>>, cat |-> <<>>, src |-> <<>>]

\* the loop "for it in items" of one day, from item i on; raised is set when an
\* item raised, which ends main()
RECURSIVE TallyItems(_, _, _)
TallyItems(acc, items, i) ==
    IF i > Len(items) THEN acc
    ELSE LET it == items[i]
         IN IF it.t # "dict" THEN TallyItems(acc, items, i + 1)
            ELSE IF ItemRaises(it) THEN [acc EXCEPT !.raised = TRUE]
            ELSE TallyItems([raised |-> FALSE,
                             ent |-> TallyEntities(acc.ent, EntitiesOf(it), 1),
                             cat |-> DictInc(acc.cat, CatKey(it)),
                             src |-> DictInc(acc.src, SourceKey(it))],
                            items, i + 1)

\* ---------------------------------------------------------------- numbers
Sign(x) == IF x > 0 THEN 1 ELSE IF x < 0 THEN -1 ELSE 0
Abs(x) == IF x < 0 THEN -x ELSE x
Min(a, b) == IF a < b THEN a ELSE b

RECURSIVE GCD(_, _)
GCD(a, b) == IF b = 0 THEN a ELSE GCD(b, a % b)

\* a rational a/b in lowest terms, b > 0
Rat(a, b) ==
    LET g == GCD(Abs(a), Abs(b))
        s == IF b < 0 THEN -1 ELSE 1
    IN <<(s * a) \div g, (s * b) \div g>>
RInt(a) == <<a, 1>>
RAdd(x, y) == Rat(x[1] * y[2] + y[1] * x[2], x[2] * y[2])
RSub(x, y) == Rat(x[1] * y[2] - y[1] * x[2], x[2] * y[2])
RMul(x, y) == Rat(x[1] * y[1], x[2] * y[2])
RDiv(x, y) == Rat(x[1] * y[2], x[2] * y[1])
RCmp(x, y) == Sign(x[1] * y[2] - y[1] * x[2])

RECURSIVE RSum(_, _)
RSum(xs, i) == IF i > Len(xs) THEN RInt(0) ELSE RAdd(xs[i], RSum(xs, i + 1))

RECURSIVE ISum(_, _)
ISum(xs, i) == IF i > Len(xs) THEN 0 ELSE xs[i] + ISum(xs, i + 1)

\* A number p + q*s + t*s^2 (s the cube root of 2), scaled by 4, as <<p, q, t>>.
\* 1, s, s^2 are linearly independent over the rationals, so two such numbers
\* are equal exactly when their triples are; the sign of one is the sign of its
\* norm p^3 + 2q^3 + 4t^3 - 6pqt, the other two conjugates being a complex pair.
WZero == <<0, 0, 0>>
WAdd(x, y) == <<x[1] + y[1], x[2] + y[2], x[3] + y[3]>>
WSub(x, y) == <<x[1] - y[1], x[2] - y[2], x[3] - y[3]>>
WScale(c, x) == <<c * x[1], c * x[2], c * x[3]>>
WSign(x) ==
    Sign(x[1] * x[1] * x[1] + 2 * x[2] * x[2] * x[2] + 4 * x[3] * x[3] * x[3]
         - 6 * x[1] * x[2] * x[3])
WCmp(x, y) == WSign(WSub(x, y))

\* 0.5 ** (age / 3.0), times 4, for age in 0..6: 2^(-1/3) = s^2/2, 2^(-2/3) = s/2
WeightOfAge(age) ==
    LET whole == IF age \div 3 = 0 THEN 4 ELSE IF age \div 3 = 1 THEN 2 ELSE 1
    IN CASE age % 3 = 0 -> <<whole, 0, 0>>
         [] age % 3 = 1 -> <<0, 0, whole \div 2>>
         [] age % 3 = 2 -> <<0, whole \div 2, 0>>

\* recency_weights(n, halflife_days=3.0), n <= 7
recency_weights(len) == [i \in 1..len |-> WeightOfAge(len - i)]

RECURSIVE WSumProd(_, _, _, _)
WSumProd(series, weights, lo, hi) ==
    IF lo > hi THEN WZero
    ELSE WAdd(WScale(series[lo], weights[lo]), WSumProd(series, weights, lo + 1, hi))

weighted_total(series, weights) == WSumProd(series, weights, 1, Len(series))

\* the difference taken for a series of any length
delta_any_length(series, weights) ==
    LET len == Len(series)
        k == Min(3, len \div 2)
    IN WSub(WSumProd(series, weights, len - k + 1, len),
            WSumProd(series, weights, 1, k))

delta_recent_vs_early(series, weights) ==
    LET len == Len(series)
        k == Min(3, len \div 2)
    IN IF len < 4 THEN WZero
       ELSE WSub(WSumProd(series, weights, len - k + 1, len),
                 WSumProd(series, weights, 1, k))

\* the number of days with a positive count, wherever they are
RECURSIVE streak_any_day(_)
streak_any_day(xs) ==
    IF xs = <<>> THEN 0
    ELSE (IF xs[Len(xs)] > 0 THEN 1 ELSE 0) + streak_any_day(SubSeq(xs, 1, Len(xs) - 1))

\* streak: the length of the longest suffix of positive counts
RECURSIVE streak(_)
streak(xs) ==
    IF xs = <<>> \/ xs[Len(xs)] <= 0 THEN 0
    ELSE 1 + streak(SubSeq(xs, 1, Len(xs) - 1))

\* the sum of products over the number of points
slope_over_count(xs) ==
    LET len == Len(xs)
        mx == Rat(len - 1, 2)
        my == RDiv(RSum(xs, 1), RInt(len))
        num == RSum([i \in 1..len |->
                       RMul(RSub(RInt(i - 1), mx), RSub(xs[i], my))], 1)
    IN IF len < 2 THEN RInt(0) ELSE RDiv(num, RInt(len))

\* slope(xs) of a list of rationals: least squares against 0..len-1
slope(xs) ==
    LET len == Len(xs)
        mx == Rat(len - 1, 2)
        my == RDiv(RSum(xs, 1), RInt(len))
        num == RSum([i \in 1..len |->
                       RMul(RSub(RInt(i - 1), mx), RSub(xs[i], my))], 1)
        den0 == RSum([i \in 1..len |->
                       RMul(RSub(RInt(i - 1), mx), RSub(RInt(i - 1), mx))], 1)
        den == IF den0 = RInt(0) THEN RInt(1) ELSE den0
    IN IF len < 2 THEN RInt(0) ELSE RDiv(num, den)

Floats(series) == [i \in 1..Len(series) |-> RInt(series[i])]

\* -------------------------------------------------------------- metric rows
EntRow(e, weights) ==
    [name |-> e.name, series |-> e.v,
     total |-> ISum(e.v, 1),
     streak |-> streak(e.v),
     slope |-> slope(Floats(e.v)),
     w_total |-> weighted_total(e.v, weights),
     delta |-> delta_recent_vs_early(e.v, weights),
     last |-> IF e.v = <<>> THEN 0 ELSE e.v[Len(e.v)]]

\* shares taken of the items of the whole window
SharesOfWindow(series, totals) ==
    [i \in 1..Len(series) |->
        Rat(series[i], IF ISum(totals, 1) = 0 THEN 1 ELSE ISum(totals, 1))]

\* shares.append(v / (total_items_per_day[i] or 1))
Shares(series, totals) ==
    [i \in 1..Len(series) |-> Rat(series[i], IF totals[i] = 0 THEN 1 ELSE totals[i])]

\* delta_share, which nothing reads, is left out
CatRow(e, weights, totals) ==
    [name |-> e.name, series |-> e.v,
     share |-> Shares(e.v, totals),
     total |-> ISum(e.v, 1),
     streak |-> streak(e.v),
     slope |-> slope(Floats(e.v)),
     share_slope |-> slope(Shares(e.v, totals)),
     w_total |-> weighted_total(e.v, weights)]

SourceRow(e, weights) ==
    [name |-> e.name, series |-> e.v,
     total |-> ISum(e.v, 1),
     streak |-> streak(e.v),
     w_total |-> weighted_total(e.v, weights),
     delta |-> delta_recent_vs_early(e.v, weights)]

\* comparison of two tuples of numbers, given componentwise comparisons
RECURSIVE LexCmp(_, _)
LexCmp(cs, i) ==
    IF i > Len(cs) THEN 0 ELSE IF cs[i] # 0 THEN cs[i] ELSE LexCmp(cs, i + 1)

\* key=lambda r: (r["w_total"], r["delta"], r["streak"], r["total"])
EntKeyCmp(a, b) ==
    LexCmp(<<WCmp(a.w_total, b.w_total), WCmp(a.delta, b.delta),
             Sign(a.streak - b.streak), Sign(a.total - b.total)>>, 1)

\* key=lambda r: (r["share_slope"], r["w_total"], r["total"], r["streak"])
CatKeyCmp(a, b) ==
    LexCmp(<<RCmp(a.share_slope, b.share_slope), WCmp(a.w_total, b.w_total),
             Sign(a.total - b.total), Sign(a.streak - b.streak)>>, 1)

\* key=lambda r: (r["w_total"], r["total"], r["streak"])
SourceKeyCmp(a, b) ==
    LexCmp(<<WCmp(a.w_total, b.w_total), Sign(a.total - b.total),
             Sign(a.streak - b.streak)>>, 1)

\* key=lambda x: x["delta"]
RotKeyCmp(a, b) == RCmp(a.delta, b.delta)

\* key=lambda r: (r["w_total"], r["last"], r["delta"])
NewKeyCmp(a, b) ==
    LexCmp(<<WCmp(a.w_total, b.w_total), Sign(a.last - b.last),
             WCmp(a.delta, b.delta)>>, 1)

\* key=lambda r: (r["last"], r["w_total"], r["delta"])
BreakoutKeyCmp(a, b) ==
    LexCmp(<<Sign(a.last - b.last), WCmp(a.w_total, b.w_total),
             WCmp(a.delta, b.delta)>>, 1)

KeyCmp(kind, a, b) ==
    CASE kind = "ent" -> EntKeyCmp(a, b)
      [] kind = "cat" -> CatKeyCmp(a, b)
      [] kind = "source" -> SourceKeyCmp(a, b)
      [] kind = "rot" -> RotKeyCmp(a, b)
      [] kind = "new" -> NewKeyCmp(a, b)
      [] kind = "breakout" -> BreakoutKeyCmp(a, b)
      [] kind = "value" -> RCmp(a, b)
      [] kind = "score" -> Sign(a.score - b.score)

\* list.sort(key=..., reverse=True) is stable: rows with equal keys keep the
\* order they had.  x goes in front of the first row whose key is smaller.
RECURSIVE InsertDesc(_, _, _, _)
InsertDesc(kind, sorted, x, i) ==
    IF i > Len(sorted) THEN Append(sorted, x)
    ELSE IF KeyCmp(kind, sorted[i], x) < 0
         THEN SubSeq(sorted, 1, i - 1) \o <<x>> \o SubSeq(sorted, i, Len(sorted))
         ELSE InsertDesc(kind, sorted, x, i + 1)

RECURSIVE SortDescFrom(_, _, _, _)
SortDescFrom(kind, rows, sorted, i) ==
    IF i > Len(rows) THEN sorted
    ELSE SortDescFrom(kind, rows, InsertDesc(kind, sorted, rows[i], 1), i + 1)

\* the rows left in the order they were built in
SortKeepsOrder(kind, rows) == rows

SortDesc(kind, rows) == SortDescFrom(kind, rows, <<>>, 1)

\* ----------------------------------------------------------------- slices
Max(a, b) == IF a > b THEN a ELSE b

\* xs[:k] for k >= 0
Take(xs, k) == SubSeq(xs, 1, Min(k, Len(xs)))

\* list(reversed(xs))
Reversed(xs) == [i \in 1..Len(xs) |-> xs[Len(xs) + 1 - i]]

\* --------------------------------------------------------------- rotation
\* k = min(3, max(1, n // 2))
RotationK(len) == Min(3, Max(1, len \div 2))

\* early = sum(s[:k]) / k; recent = sum(s[-k:]) / k
RotRow(r, k) ==
    LET early == RDiv(RSum(Take(r.share, k), 1), RInt(k))
        recent == RDiv(RSum(LastSlice(r.share, k), 1), RInt(k))
    IN [name |-> r.name, early |-> early, recent |-> recent,
        delta |-> RSub(recent, early), series |-> r.series]

\* the rot list: a row per category with at least two days of shares, sorted
\* by delta, largest first
Rotation(rows, len) ==
    LET kept == SelectSeq(rows, LAMBDA r : Len(r.share) >= 2)
    IN SortDesc("rot", [i \in 1..Len(kept) |-> RotRow(kept[i], RotationK(len))])

\* one row more than five
RisersTakeSix(rot_) == Take(rot_, 6)

\* risers = rot[:5]
Risers(rot_) == Take(rot_, 5)

\* the tail of rot as it stands, not reversed
FallersTailOrder(rot_) == LastSlice(rot_, 5)

\* fallers = list(reversed(rot[-5:])) if len(rot) >= 5 else list(reversed(rot))
Fallers(rot_) ==
    IF Len(rot_) >= 5 THEN Reversed(LastSlice(rot_, 5)) ELSE Reversed(rot_)

\* -------------------------------------------------------------- anomalies
\* the test without its look at the days before the last new_k
IsNewEntrantLateOnly(r, len) == ISum(LastSlice(r.series, Min(3, len)), 1) > 0

\* sum(s[:max(0, n - new_k)]) == 0 and sum(s[-new_k:]) > 0, new_k = min(3, n)
IsNewEntrant(r, len) ==
    LET new_k == Min(3, len)
    IN /\ ISum(Take(r.series, Max(0, len - new_k)), 1) = 0
       /\ ISum(LastSlice(r.series, new_k), 1) > 0

\* the new_ents list: the qualifying rows, ranked, the first 8 of them
NewEntrants(rows, len) ==
    Take(SortDesc("new", SelectSeq(rows, LAMBDA r : IsNewEntrant(r, len))), 8)

\* the test with prev_avg < 0.5
IsBreakoutStrict(r) ==
    LET s == r.series
    IN /\ s # <<>>
       /\ s[Len(s)] >= 2
       /\ RCmp(Rat(ISum(SubSeq(s, 1, Len(s) - 1), 1), Max(1, Len(s) - 1)),
               Rat(1, 2)) < 0

\* last >= 2 and prev_avg <= 0.5, prev_avg = sum(s[:-1]) / max(1, len(s) - 1)
IsBreakout(r) ==
    LET s == r.series
    IN /\ s # <<>>
       /\ s[Len(s)] >= 2
       /\ RCmp(Rat(ISum(SubSeq(s, 1, Len(s) - 1), 1), Max(1, Len(s) - 1)),
               Rat(1, 2)) <= 0

\* the breakouts list: the qualifying rows, ranked, the first 8 of them
Breakouts(rows) ==
    Take(SortDesc("breakout", SelectSeq(rows, LAMBDA r : IsBreakout(r))), 8)

\* ----------------------------------------------------------- concentration
\* counts.values() of a mapping kept as a sequence of [name, v] entries
Values(counts) == [i \in 1..Len(counts) |-> counts[i].v]

\* sum(counts.values()) or 0.0
TotalOf(counts) == RSum(Values(counts), 1)

\* the sum of the shares, not of their squares
hhi_unsquared(counts) ==
    LET total == TotalOf(counts)
    IN IF RCmp(total, RInt(0)) <= 0 THEN RInt(0)
       ELSE RSum([i \in 1..Len(counts) |-> RDiv(counts[i].v, total)], 1)

hhi_from_counts(counts) ==
    LET total == TotalOf(counts)
    IN IF RCmp(total, RInt(0)) <= 0 THEN RInt(0)
       ELSE RSum([i \in 1..Len(counts) |->
                    RMul(RDiv(counts[i].v, total), RDiv(counts[i].v, total))], 1)

\* the first topn values in the mapping's own order
top_share_unsorted(counts, topn) ==
    LET total == TotalOf(counts)
    IN IF RCmp(total, RInt(0)) <= 0 THEN RInt(0)
       ELSE RDiv(RSum(Take(Values(counts), topn), 1), total)

\* topn >= 0
top_share(counts, topn) ==
    LET total == TotalOf(counts)
        vals == Take(SortDesc("value", Values(counts)), topn)
    IN IF RCmp(total, RInt(0)) <= 0 THEN RInt(0)
       ELSE RDiv(RSum(vals, 1), total)

\* ---------------------------------------------------------------- evidence
\* entity in (it.get("entities") or []): list membership by equality
EntityMatches(it, entity) ==
    \E i \in 1..Len(EntitiesOf(it)) :
        EntitiesOf(it)[i].t = "str" /\ EntitiesOf(it)[i].s = entity

\* (it.get("primary") or "misc").strip() == category
CategoryMatches(it, category) == CatKey(it) = category

Matches(kind, it, target) ==
    IF kind = "entity" THEN EntityMatches(it, target) ELSE CategoryMatches(it, target)

\* the two loops of pick_items_for_entity and pick_items_for_category, from
\* item i of snapshot d on, snapshots taken last to first.  A hit is the place
\* <<d, i>> of the item; the loops return as soon as len(hits) >= limit.
RECURSIVE PickFrom(_, _, _, _, _, _, _)
PickFrom(kind, snaps, target, limit, d, i, hits) ==
    IF d < 1 THEN hits
    ELSE IF i > Len(ItemsOf(snaps[d]))
    THEN PickFrom(kind, snaps, target, limit, d - 1, 1, hits)
    ELSE LET it == ItemsOf(snaps[d])[i]
         IN IF it.t = "dict" /\ Matches(kind, it, target)
            THEN IF Len(hits) + 1 >= limit
                 THEN Append(hits, <<d, i>>)
                 ELSE PickFrom(kind, snaps, target, limit, d, i + 1,
                               Append(hits, <<d, i>>))
            ELSE PickFrom(kind, snaps, target, limit, d, i + 1, hits)

pick_items_for_entity(snaps, entity, limit) ==
    PickFrom("entity", snaps, entity, limit, Len(snaps), 1, <<>>)

pick_items_for_category(snaps, category, limit) ==
    PickFrom("category", snaps, category, limit, Len(snaps), 1, <<>>)

\* clusters: for r in ent_rows[:5], the items picked for r["name"], limit=6
Clusters(rows, snaps) ==
    [i \in 1..Min(5, Len(rows)) |->
        [name |-> rows[i].name, items |-> pick_items_for_entity(snaps, rows[i].name, 6)]]

\* cat_clusters: for r in cat_rows[:3], the items picked for r["name"], limit=6
CatClusters(rows, snaps) ==
    [i \in 1..Min(3, Len(rows)) |->
        [name |-> rows[i].name, items |-> pick_items_for_category(snaps, rows[i].name, 6)]]

\* ------------------------------------------------------------------ inputs
\* main() calls list_latest(7)
WindowDays == 7

DateName(k) == FileName(2024, 1, k, "", ".json")
CacheName == FileName(2024, 1, 2, ".llm_cache", ".json")
XCacheName == FileName(2024, 1, 2, ".x_cache", ".json")
DoneName == FileName(2024, 1, 1, "", ".llm_done")
MinName == FileName(1, 1, 1, "", ".json")
BadDayName == FileName(2024, 2, 30, "", ".json")
UpperName == FileName(2024, 1, 9, "", ".JSON")
OtherNames == {CacheName, XCacheName, DoneName, MinName, BadDayName, UpperName}

\* items as the upstream pipeline, a cache file or a hand edit can leave them:
\* a value that is no object; a primary and a source that are no strings; an
\* entities value that is no list; blank primary, null source, an entity with
\* surrounding blanks, its alias and a number; one entity listed twice; absent
\* primary, blank source and two entities that tie
ItemPool ==
    { OtherItem,
      Item(Num, Num, List(<<Str(sA)>>)),
      Item(Str(sInfra), Str(sRss), NumList),
      Item(Str(<<" ">>), Null, List(<<Str(<<" ">> \o sUS), Str(sEEUU), Num>>)),
      Item(Str(sInfra), Str(sRss), List(<<Str(sUS), Str(sUS)>>)),
      Item(Absent, Str(<<" ">>), List(<<Str(sB), Str(sA)>>)) }

ItemSeqs(len) == [1..len -> ItemPool]

\* files that are no list of items; each counts as one item of the budget
OddFiles == { Garbage, Object(GivenDate, NumList) }

DayFiles(budget) ==
    (IF budget >= 1 THEN OddFiles ELSE {})
    \cup { Object(GivenDate, List(l)) : l \in UNION { ItemSeqs(k) : k \in 0..budget } }

Cost(c) == IF c \in OddFiles THEN 1 ELSE Len(c.items.l)

\* the contents of j snapshot files holding at most budget items together
RECURSIVE Windows(_, _)
Windows(j, budget) ==
    IF j = 0 THEN {<<>>}
    ELSE UNION { { <<c>> \o w : w \in Windows(j - 1, budget - Cost(c)) } :
                 c \in DayFiles(budget) }

NoLists == [risers |-> <<>>, fallers |-> <<>>, new_ents |-> <<>>, breakouts |-> <<>>,
            clusters |-> <<>>, cat_clusters |-> <<>>]
NoOut == [kind |-> "none", n |-> 0, ents |-> <<>>, cats |-> <<>>, sources |-> <<>>,
          lists |-> NoLists]
NoDataOut == [kind |-> "nodata", n |-> 0, ents |-> <<>>, cats |-> <<>>, sources |-> <<>>,
              lists |-> NoLists]

LocalsInit ==
    /\ files = <<>>
    /\ snapshots = <<>>
    /\ n = 0
    /\ di = 0
    /\ ent_series = <<>>
    /\ cat_series = <<>>
    /\ source_series = <<>>
    /\ total_items_per_day = <<>>
    /\ ent_rows = <<>>
    /\ cat_rows = <<>>
    /\ source_rows = <<>>
    /\ rot = <<>>
    /\ risers = <<>>
    /\ fallers = <<>>
    /\ new_ents = <<>>
    /\ breakouts = <<>>
    /\ clusters = <<>>
    /\ cat_clusters = <<>>

\* no helper is called directly
NoCall == [fn |-> "none"]

RestInit ==
    /\ call = NoCall
    /\ clock = 0
    /\ argN = 0
    /\ ret = <<>>
    /\ out = NoOut
    /\ prevOut = NoOut
    /\ runs = 0
    /\ LocalsInit
    /\ AuxIdle

\* snapshot files in every shape load_day tells apart
FileKinds ==
    { Garbage, NonObject, Object(NoDate, NoList), Object(GivenDate, NoList),
      Object(NoDate, NullList),
      Object(NoDate, List(<<Item(Str(sInfra), Str(sRss), List(<<Str(sA)>>))>>)) }

\* a window of at most MaxItems items in well-formed files and odd files
InitItems ==
    \E j \in 0..MaxDays :
       \E extras \in (IF j = 0 THEN {{}, {CacheName, DoneName}}
                               ELSE {{CacheName, DoneName}}),
          w \in Windows(j, MaxItems) :
          /\ dir = {DateName(k) : k \in 1..j} \cup extras
          /\ content = [p \in dir |->
                          IF p \in extras THEN Object(NoDate, NoList) ELSE w[p.d]]
          /\ dirExists \in (IF dir = {} THEN BOOLEAN ELSE {TRUE})

\* nine entities that one item names together
Crowd == List(<< Str(<<"C">>), Str(<<"D">>), Str(<<"F">>), Str(<<"G">>), Str(<<"H">>),
                 Str(<<"J">>), Str(<<"K">>), Str(<<"L">>), Str(<<"M">>) >>)

\* a busy day: six items of six categories, two of them naming the nine
\* entities
CrowdDay ==
    << Item(Str(sInfra), Str(sRss), Crowd),
       Item(Str(sModels), Str(sRss), Crowd),
       Item(Str(sInvest), Str(sRss), List(<<>>)),
       Item(Str(sGeopol), Str(sRss), List(<<>>)),
       Item(Str(sMisc), Str(sRss), List(<<>>)),
       Item(Str(sOther), Str(sRss), List(<<>>)) >>

\* a quiet day: no item; one item on A; two items on A, one of them with a
\* blank in front of the name
QuietDays ==
    { <<>>,
      << Item(Str(sInfra), Str(sRss), List(<<Str(sA)>>)) >>,
      << Item(Str(sInfra), Str(sRss), List(<<Str(sA)>>)),
         Item(Str(sModels), Str(sRss), List(<<Str(<<" ">> \o sA)>>)) >> }

\* a window of up to MaxTrendDays days of well-formed items, quiet days with
\* possibly a busy first or last day
InitTrend ==
    \E j \in 1..MaxTrendDays :
       \E w \in [1..j -> QuietDays \cup {CrowdDay}] :
          /\ \A k \in 2..(j - 1) : w[k] \in QuietDays
          /\ dir = {DateName(k) : k \in 1..j}
          /\ content = [p \in dir |-> Object(GivenDate, List(w[p.d]))]
          /\ dirExists = TRUE

\* a window of files of any kind
InitFiles ==
    \E j \in 1..MaxDays :
       \E w \in [1..j -> FileKinds] :
          /\ dir = {DateName(k) : k \in 1..j}
          /\ content = [p \in dir |-> w[p.d]]
          /\ dirExists = TRUE

Init ==
    /\ InitItems \/ InitFiles
    /\ pc = "start"
    /\ RestInit

\* ------------------------------------------------------------------ main()
LocalsReset ==
    /\ files' = <<>>
    /\ snapshots' = <<>>
    /\ n' = 0
    /\ di' = 0
    /\ ent_series' = <<>>
    /\ cat_series' = <<>>
    /\ source_series' = <<>>
    /\ total_items_per_day' = <<>>
    /\ ent_rows' = <<>>
    /\ cat_rows' = <<>>
    /\ source_rows' = <<>>
    /\ rot' = <<>>
    /\ risers' = <<>>
    /\ fallers' = <<>>
    /\ new_ents' = <<>>
    /\ breakouts' = <<>>
    /\ clusters' = <<>>
    /\ cat_clusters' = <<>>

\* files = list_latest(7)
ListLatest ==
    /\ pc = "start"
    /\ files' = list_latest(WindowDays)
    /\ pc' = "listed"
    /\ UNCHANGED <<aux, call, fsVars, derived, clock, argN, ret,
                   snapshots, n, di, ent_series, cat_series,
                   source_series, total_items_per_day, ent_rows, cat_rows,
                   source_rows, out, runs, prevOut>>

\* if not files: write the "No data." page and return
NoData ==
    /\ pc = "listed"
    /\ files = <<>>
    /\ out' = NoDataOut
    /\ runs' = runs + 1
    /\ pc' = "done"
    /\ LocalsReset
    /\ UNCHANGED <<aux, call, fsVars, clock, argN, ret, prevOut>>

\* days, snapshots, n, weights and the empty series
LoadDays ==
    /\ pc = "listed"
    /\ files # <<>>
    /\ snapshots' = [i \in 1..Len(files) |-> load_day(files[i])]
    /\ n' = Len(files)
    /\ ent_series' = <<>>
    /\ cat_series' = <<>>
    /\ source_series' = <<>>
    /\ total_items_per_day' = <<>>
    /\ di' = 1
    /\ pc' = "build"
    /\ UNCHANGED <<aux, call, fsVars, derived, clock, argN, ret,
                   files, ent_rows, cat_rows, source_rows,
                   out, runs, prevOut>>

\* one round of "for di, snap in enumerate(snapshots)"; an exception leaves
\* main() with OUT_HTML untouched
BuildDay ==
    /\ pc = "build"
    /\ di <= n
    /\ LET snap == snapshots[di]
           items == ItemsOf(snap)
           tally == TallyItems(NoTally, items, 1)
       IN IF ItemsRaise(snap)
          THEN /\ pc' = "raised"
               /\ UNCHANGED <<di, ent_series, cat_series, source_series,
                              total_items_per_day>>
          ELSE IF tally.raised
          THEN /\ pc' = "raised"
               /\ total_items_per_day' = Append(total_items_per_day, Len(items))
               /\ UNCHANGED <<di, ent_series, cat_series, source_series>>
          ELSE /\ pc' = "build"
               /\ total_items_per_day' = Append(total_items_per_day, Len(items))
               /\ cat_series' = MergeLocal(cat_series, tally.cat, n, di, 1)
               /\ source_series' = MergeLocal(source_series, tally.src, n, di, 1)
               /\ ent_series' = MergeLocal(ent_series, tally.ent, n, di, 1)
               /\ di' = di + 1
    /\ UNCHANGED <<aux, call, fsVars, derived, clock, argN, ret,
                   files, snapshots, n, ent_rows, cat_rows,
                   source_rows, out, runs, prevOut>>

\* the metric rows of the three key spaces, each sorted by its ranking tuple
Rank ==
    /\ pc = "build"
    /\ di > n
    /\ LET weights == recency_weights(n)
       IN /\ ent_rows' = SortDesc("ent",
                 [i \in 1..Len(ent_series) |-> EntRow(ent_series[i], weights)])
          /\ cat_rows' = SortDesc("cat",
                 [i \in 1..Len(cat_series) |->
                     CatRow(cat_series[i], weights, total_items_per_day)])
          /\ source_rows' = SortDesc("source",
                 [i \in 1..Len(source_series) |-> SourceRow(source_series[i], weights)])
    /\ pc' = "ranked"
    /\ UNCHANGED <<aux, call, fsVars, derived, clock, argN, ret,
                   files, snapshots, n, di, ent_series,
                   cat_series, source_series, total_items_per_day, out, runs, prevOut>>

\* rotation, new entrants, breakouts and the evidence clusters
Analyze ==
    /\ pc = "ranked"
    /\ rot' = Rotation(cat_rows, n)
    /\ risers' = Risers(rot')
    /\ fallers' = Fallers(rot')
    /\ new_ents' = NewEntrants(ent_rows, n)
    /\ breakouts' = Breakouts(ent_rows)
    /\ clusters' = Clusters(ent_rows, snapshots)
    /\ cat_clusters' = CatClusters(cat_rows, snapshots)
    /\ pc' = "analyzed"
    /\ UNCHANGED <<aux, call, fsVars, clock, argN, ret, files, snapshots, n, di, ent_series,
                   cat_series, source_series, total_items_per_day, ent_rows, cat_rows,
                   source_rows, out, runs, prevOut>>

\* the page main() writes: the window size, the ranked rows and the lists
Report == [kind |-> "report", n |-> n, ents |-> ent_rows, cats |-> cat_rows,
           sources |-> source_rows,
           lists |-> [risers |-> risers, fallers |-> fallers, new_ents |-> new_ents,
                      breakouts |-> breakouts, clusters |-> clusters,
                      cat_clusters |-> cat_clusters]]

\* OUT_HTML.write_text(html) and return
WriteReport ==
    /\ pc = "analyzed"
    /\ out' = Report
    /\ runs' = runs + 1
    /\ pc' = "done"
    /\ LocalsReset
    /\ UNCHANGED <<aux, call, fsVars, clock, argN, ret, prevOut>>

\* main() is called again later, on the same snapshot files
Rerun ==
    /\ pc = "done"
    /\ runs < MaxRuns
    /\ prevOut' = out
    /\ clock' = clock + 1
    /\ pc' = "start"
    /\ UNCHANGED <<aux, call, fsVars, argN, ret, locals, out, runs>>

Next ==
    \/ ListLatest
    \/ NoData
    \/ LoadDays
    \/ BuildDay
    \/ Rank
    \/ Analyze
    \/ WriteReport
    \/ Rerun

Spec == Init /\ [][Next]_vars

\* ------------------------------------- main() over well-formed snapshots
TrendInit ==
    /\ InitTrend
    /\ pc = "start"
    /\ RestInit

TrendNext ==
    \/ ListLatest
    \/ LoadDays
    \/ BuildDay
    \/ Rank
    \/ Analyze
    \/ WriteReport

TrendSpec == TrendInit /\ [][TrendNext]_vars

\* ----------------------------- hhi_from_counts and top_share, directly
\* weighted totals: none, a half, one, two
ConcValues == {RInt(0), Rat(1, 2), RInt(1), RInt(2)}

KeyNames == <<sA, sB, sUS, sEEUU>>

ConcInit ==
    /\ \E k \in 0..MaxKeys : \E vs \in [1..k -> ConcValues] : \E topn \in 0..MaxTopN :
          call = [fn |-> "concentration",
                  counts |-> [i \in 1..k |-> [name |-> KeyNames[i], v |-> vs[i]]],
                  topn |-> topn]
    /\ dirExists = FALSE
    /\ dir = {}
    /\ content = <<>>
    /\ pc = "call"
    /\ clock = 0
    /\ argN = 0
    /\ ret = <<>>
    /\ out = NoOut
    /\ prevOut = NoOut
    /\ runs = 0
    /\ LocalsInit
    /\ AuxIdle

CallConcentration ==
    /\ pc = "call"
    /\ call.fn = "concentration"
    /\ ret' = [hhi |-> hhi_from_counts(call.counts),
               top |-> top_share(call.counts, call.topn)]
    /\ pc' = "returned"
    /\ UNCHANGED <<aux, call, fsVars, clock, argN, locals, out, runs, prevOut>>

ConcNext == CallConcentration

ConcSpec == ConcInit /\ [][ConcNext]_vars

\* ------------- pick_items_for_entity and pick_items_for_category, directly
\* an item on A in infra, an item on B in models, a value that is no object
PickPool ==
    { Item(Str(sInfra), Str(sRss), List(<<Str(sA)>>)),
      Item(Str(sModels), Str(sRss), List(<<Str(sB)>>)),
      OtherItem }

\* j loaded snapshots holding at most budget items together
RECURSIVE PickWindows(_, _)
PickWindows(j, budget) ==
    IF j = 0 THEN {<<>>}
    ELSE UNION { { <<[date |-> GivenDate, items |-> List(l)]>> \o w :
                     w \in PickWindows(j - 1, budget - Len(l)) } :
                 l \in UNION { [1..k -> PickPool] : k \in 0..budget } }

PickInit ==
    /\ \E j \in 0..MaxPickDays : \E w \in PickWindows(j, MaxPickItems) :
       \E limit \in 0..MaxLimit : \E kind \in {"entity", "category"} :
          call = [fn |-> "pick", kind |-> kind, snaps |-> w,
                  target |-> IF kind = "entity" THEN sA ELSE sInfra,
                  limit |-> limit]
    /\ dirExists = FALSE
    /\ dir = {}
    /\ content = <<>>
    /\ pc = "call"
    /\ clock = 0
    /\ argN = 0
    /\ ret = <<>>
    /\ out = NoOut
    /\ prevOut = NoOut
    /\ runs = 0
    /\ LocalsInit
    /\ AuxIdle

CallPick ==
    /\ pc = "call"
    /\ call.fn = "pick"
    /\ ret' = IF call.kind = "entity"
              THEN pick_items_for_entity(call.snaps, call.target, call.limit)
              ELSE pick_items_for_category(call.snaps, call.target, call.limit)
    /\ pc' = "returned"
    /\ UNCHANGED <<aux, call, fsVars, clock, argN, locals, out, runs, prevOut>>

PickNext == CallPick

PickSpec == PickInit /\ [][PickNext]_vars

\* ------------------------- slope and delta_recent_vs_early, directly
MetricInit ==
    /\ \E len \in 0..MaxSeriesLen : \E xs \in [1..len -> 0..MaxCount] :
       \E fn \in {"slope", "delta"} :
          call = [fn |-> fn, xs |-> xs]
    /\ dirExists = FALSE
    /\ dir = {}
    /\ content = <<>>
    /\ pc = "call"
    /\ clock = 0
    /\ argN = 0
    /\ ret = <<>>
    /\ out = NoOut
    /\ prevOut = NoOut
    /\ runs = 0
    /\ LocalsInit
    /\ AuxIdle

\* slope([float(x) for x in series])
CallSlope ==
    /\ pc = "call"
    /\ call.fn = "slope"
    /\ ret' = slope(Floats(call.xs))
    /\ pc' = "returned"
    /\ UNCHANGED <<aux, call, fsVars, clock, argN, locals, out, runs, prevOut>>

\* delta_recent_vs_early(series, recency_weights(len(series)))
CallDelta ==
    /\ pc = "call"
    /\ call.fn = "delta"
    /\ ret' = delta_recent_vs_early(call.xs, recency_weights(Len(call.xs)))
    /\ pc' = "returned"
    /\ UNCHANGED <<aux, call, fsVars, clock, argN, locals, out, runs, prevOut>>

MetricNext == CallSlope \/ CallDelta

MetricSpec == MetricInit /\ [][MetricNext]_vars

\* ------------------------------ the riser and faller slices, directly
\* the label of the category ranked p-th
RankedName(p) == <<"c", ToString(p)>>

\* a rot list of len rows sorted by delta, largest first: up rows with a
\* rising share, then rows with a steady share, then down rows with a falling
\* one
RotList(len, up, down) ==
    [p \in 1..len |->
        [name |-> RankedName(p),
         delta |-> IF p <= up THEN Rat(1, 2)
                   ELSE IF p > len - down THEN Rat(-1, 2) ELSE RInt(0)]]

RotInit ==
    /\ \E len \in 0..MaxRot : \E up \in 0..len : \E down \in 0..(len - up) :
          call = [fn |-> "rotation", rot |-> RotList(len, up, down)]
    /\ dirExists = FALSE
    /\ dir = {}
    /\ content = <<>>
    /\ pc = "call"
    /\ clock = 0
    /\ argN = 0
    /\ ret = <<>>
    /\ out = NoOut
    /\ prevOut = NoOut
    /\ runs = 0
    /\ LocalsInit
    /\ AuxIdle

\* risers = rot[:5]; fallers = list(reversed(rot[-5:])) ...
CallRotationLists ==
    /\ pc = "call"
    /\ call.fn = "rotation"
    /\ ret' = [risers |-> Risers(call.rot), fallers |-> Fallers(call.rot)]
    /\ pc' = "returned"
    /\ UNCHANGED <<aux, call, fsVars, clock, argN, locals, out, runs, prevOut>>

RotNext == CallRotationLists

RotSpec == RotInit /\ [][RotNext]_vars

\* ------------------------------------------------- list_latest(n), directly
\* any directory over the name pool; the entry of the first date may be a
\* directory
ListInit ==
    /\ \E ds \in SUBSET {DateName(k) : k \in 1..MaxDays}, os \in SUBSET OtherNames,
          sub \in BOOLEAN :
          /\ dir = ds \cup os
          /\ content = [p \in dir |->
                          IF sub /\ p = DateName(1) THEN DirEntry
                          ELSE Object(GivenDate, List(<<>>))]
          /\ dirExists \in (IF dir = {} THEN BOOLEAN ELSE {TRUE})
    /\ pc = "call"
    /\ clock = 0
    /\ argN \in 0..MaxN
    /\ ret = <<>>
    /\ call = NoCall
    /\ out = NoOut
    /\ prevOut = NoOut
    /\ runs = 0
    /\ LocalsInit
    /\ AuxIdle

CallListLatest ==
    /\ pc = "call"
    /\ ret' = list_latest(argN)
    /\ pc' = "returned"
    /\ UNCHANGED <<aux, call, fsVars, clock, argN, locals, out, runs, prevOut>>

ListNext == CallListLatest

ListSpec == ListInit /\ [][ListNext]_vars

\* ------------------------------------------------ the X cache (fetch_x.py)
\* everything the X cache leaves alone
weekly == <<call, fsVars, clock, argN, ret, pc, locals, out, runs, prevOut>>
notX == <<weekly, llmVars, rss>>

\* processes that share one cache file, the keys they cache under, and the
\* values a JSON object can hold under a key
Procs == {1, 2}
CacheKeys == {"h1", "h2"}
Items == "list"
NotAList == "str"

\* the characters of a cache file, one token per brace and per entry
Brace(b) == [tok |-> b, name |-> "", v |-> ""]
Entry(e) == [tok |-> "entry", name |-> e.name, v |-> e.v]
Garbled == <<[tok |-> "garbage", name |-> "", v |-> ""]>>

\* json.dumps(_CACHE_DATA): the entries in insertion order between braces
Dumps(data) ==
    <<Brace("{")>> \o [i \in 1..Len(data) |-> Entry(data[i])] \o <<Brace("}")>>

\* dict[k] = v
DictPut(dct, k, v) ==
    IF DictHas(dct, k) THEN [dct EXCEPT ![DictIdx(dct, k)].v = v]
    ELSE Append(dct, [name |-> k, v |-> v])

\* json.loads accepts the text as an object
IsObjectText(text) ==
    /\ Len(text) >= 2
    /\ text[1] = Brace("{")
    /\ text[Len(text)] = Brace("}")
    /\ \A i \in 2..(Len(text) - 1) : text[i].tok = "entry"

RECURSIVE LoadsFrom(_, _, _)
LoadsFrom(text, i, dct) ==
    IF i >= Len(text) THEN dct
    ELSE LoadsFrom(text, i + 1, DictPut(dct, text[i].name, text[i].v))

\* json.loads of an object text
Loads(text) == LoadsFrom(text, 2, <<>>)

\* parsed: the entries of raw whose value is a list
ListEntries(raw) == SelectSeq(raw, LAMBDA e : e.v = Items)

\* _cache_enabled()
cache_enabled(p) == ~xenv[p].disable

\* _load_cache_once() gets as far as path.read_text
ReadsFile(p) ==
    /\ ~CACHE_LOADED[p]
    /\ cache_enabled(p)
    /\ ~xenv[p].force_refresh
    /\ cache_file.exists

\* _CACHE_DATA after _load_cache_once(): a text json.loads rejects raises
\* inside the try and leaves the map as it was, and so does a non-object
LoadedData(p) ==
    IF ReadsFile(p) /\ IsObjectText(cache_file.text)
    THEN ListEntries(Loads(cache_file.text))
    ELSE CACHE_DATA[p]

\* xlog after a call of fn by p; the call may have gone through
\* _load_cache_once()
Logged(p, fn, end, loads) ==
    [xlog EXCEPT !.reads[p] = @ + (IF loads /\ ReadsFile(p) THEN 1 ELSE 0),
                 !.call[p] = [fn |-> fn, end |-> end],
                 !.actor = p]

\* _cache_get(key)
CacheGet(p, key) ==
    /\ xpc[p] = "idle"
    /\ CACHE_LOADED' = [CACHE_LOADED EXCEPT ![p] = TRUE]
    /\ CACHE_DATA' = [CACHE_DATA EXCEPT ![p] = LoadedData(p)]
    /\ xlog' = Logged(p, "get",
                      IF cache_enabled(p) /\ DictHas(LoadedData(p), key)
                      THEN "hit" ELSE "none", TRUE)
    /\ UNCHANGED <<cache_file, CACHE_DIRTY, xenv, xpc>>
    /\ UNCHANGED notX

\* _cache_put(key, items)
CachePut(p, key) ==
    /\ xpc[p] = "idle"
    /\ CACHE_LOADED' = [CACHE_LOADED EXCEPT ![p] = TRUE]
    /\ IF cache_enabled(p)
       THEN /\ CACHE_DATA' = [CACHE_DATA EXCEPT ![p] = DictPut(LoadedData(p), key, Items)]
            /\ CACHE_DIRTY' = [CACHE_DIRTY EXCEPT ![p] = TRUE]
       ELSE /\ CACHE_DATA' = [CACHE_DATA EXCEPT ![p] = LoadedData(p)]
            /\ UNCHANGED CACHE_DIRTY
    /\ xlog' = Logged(p, "put", "returned", TRUE)
    /\ UNCHANGED <<cache_file, xenv, xpc>>
    /\ UNCHANGED notX

\* the condition under which _save_cache() does not return at once
\* without the dirty test
SaveGuardAlways(p) == cache_enabled(p)
SaveGuard(p) == CACHE_DIRTY[p] /\ cache_enabled(p)

\* _save_cache() returns at once
SaveSkip(p) ==
    /\ xpc[p] = "idle"
    /\ ~SaveGuard(p)
    /\ xlog' = Logged(p, "save", "skipped", FALSE)
    /\ UNCHANGED <<cache_file, CACHE_LOADED, CACHE_DIRTY, CACHE_DATA, xenv, xpc>>
    /\ UNCHANGED notX

\* _save_cache(): mkdir, then write_text opens the file, which truncates it
SaveOpen(p) ==
    /\ xpc[p] = "idle"
    /\ SaveGuard(p)
    /\ cache_file' = [exists |-> TRUE, text |-> <<>>]
    /\ xpc' = [xpc EXCEPT ![p] = "writing"]
    /\ xlog' = Logged(p, "save", "writing", FALSE)
    /\ UNCHANGED <<CACHE_LOADED, CACHE_DIRTY, CACHE_DATA, xenv>>
    /\ UNCHANGED notX

\* _save_cache(): mkdir or open raises; the except clause prints and returns
SaveOpenFails(p) ==
    /\ xpc[p] = "idle"
    /\ SaveGuard(p)
    /\ xlog' = [Logged(p, "save", "failed", FALSE) EXCEPT !.failed = TRUE]
    /\ UNCHANGED <<cache_file, CACHE_LOADED, CACHE_DIRTY, CACHE_DATA, xenv, xpc>>
    /\ UNCHANGED notX

\* text written at offset 0 of a file that holds old
Overwrite(old, text) ==
    IF Len(text) >= Len(old) THEN text
    ELSE text \o SubSeq(old, Len(text) + 1, Len(old))

\* _save_cache(): write_text writes the text and closes; _CACHE_DIRTY = False
SaveWrite(p) ==
    /\ xpc[p] = "writing"
    /\ cache_file' = [exists |-> TRUE,
                      text |-> Overwrite(cache_file.text, Dumps(CACHE_DATA[p]))]
    /\ CACHE_DIRTY' = [CACHE_DIRTY EXCEPT ![p] = FALSE]
    /\ xpc' = [xpc EXCEPT ![p] = "idle"]
    /\ xlog' = [Logged(p, "save", "written", FALSE) EXCEPT !.flushed = p]
    /\ UNCHANGED <<CACHE_LOADED, CACHE_DATA, xenv>>
    /\ UNCHANGED notX

\* _save_cache(): the write raises; the except clause prints and returns
SaveWriteFails(p) ==
    /\ xpc[p] = "writing"
    /\ xpc' = [xpc EXCEPT ![p] = "idle"]
    /\ xlog' = [Logged(p, "save", "failed", FALSE) EXCEPT !.failed = TRUE]
    /\ UNCHANGED <<cache_file, CACHE_LOADED, CACHE_DIRTY, CACHE_DATA, xenv>>
    /\ UNCHANGED notX

\* the cache file before any process ran: missing, unreadable as JSON, or
\* an object, one of whose values may not be a list
InitialFiles ==
    { NoFile,
      [exists |-> TRUE, text |-> Garbled],
      [exists |-> TRUE, text |-> Dumps(<<>>)],
      [exists |-> TRUE, text |-> Dumps(<<[name |-> "h1", v |-> Items]>>)],
      [exists |-> TRUE, text |-> Dumps(<<[name |-> "h1", v |-> NotAList],
                                         [name |-> "h2", v |-> Items]>>)] }

\* X_CACHE_DISABLE and X_CACHE_FORCE_REFRESH as a process finds them
EnvKinds ==
    { [disable |-> FALSE, force_refresh |-> FALSE],
      [disable |-> FALSE, force_refresh |-> TRUE],
      [disable |-> TRUE, force_refresh |-> FALSE] }

CacheInit ==
    /\ cache_file \in InitialFiles
    /\ CACHE_LOADED = [p \in Procs |-> FALSE]
    /\ CACHE_DIRTY = [p \in Procs |-> FALSE]
    /\ CACHE_DATA = [p \in Procs |-> <<>>]
    /\ xenv \in [Procs -> EnvKinds]
    /\ xpc = [p \in Procs |-> "idle"]
    /\ xlog = [reads |-> [p \in Procs |-> 0],
               call |-> [p \in Procs |-> [fn |-> "none", end |-> "none"]],
               actor |-> 0, flushed |-> 0, failed |-> FALSE]
    /\ call = NoCall
    /\ dirExists = FALSE
    /\ dir = {}
    /\ content = <<>>
    /\ pc = "cache"
    /\ clock = 0
    /\ argN = 0
    /\ ret = <<>>
    /\ out = NoOut
    /\ prevOut = NoOut
    /\ runs = 0
    /\ LocalsInit
    /\ LlmIdle
    /\ RssIdle

CacheNext ==
    \E p \in Procs :
        \/ \E key \in CacheKeys : CacheGet(p, key)
        \/ \E key \in CacheKeys : CachePut(p, key)
        \/ SaveSkip(p)
        \/ SaveOpen(p)
        \/ SaveOpenFails(p)
        \/ SaveWrite(p)
        \/ SaveWriteFails(p)

CacheSpec == CacheInit /\ [][CacheNext]_vars

\* ------------------------------------- generate_llm_data (main.py 251-308)
\* runs of generate_llm_data on one day
MaxLlmRuns == 3

\* everything generate_llm_data leaves alone
notLlm == <<weekly, xVars, rss>>

\* GITHUB_EVENT_NAME as a run finds it
Events == {"schedule", "workflow_dispatch", "push"}

\* should_use_gemini_today()
should_use_gemini_today(run) ==
    \/ run.force_gemini
    \/ run.event = "schedule"
    \/ run.event = "workflow_dispatch"

\* json.dumps({"results_map": results_map, "briefings": briefings}): the
\* keys that hold something; briefings holds the appended b even when b = {}
CacheText(has_map) ==
    IF has_map THEN <<"results_map", "briefings">> ELSE <<"briefings">>

\* the text of llm_cache parses as an object (a file cut short on a failed
\* write does not)
Parses(text) == text # <<>>

\* results_map or briefings read from the cache is not empty
YieldsData(file, run) ==
    /\ file.exists
    /\ ~run.force_refresh
    /\ Parses(file.text)
    /\ \E i \in 1..Len(file.text) : file.text[i] \in {"results_map", "briefings"}

\* a run starts: its environment
StartRun ==
    /\ lrun.pc = "idle"
    /\ llog.runs < MaxLlmRuns
    /\ \E event \in Events, force_gemini \in BOOLEAN, force_refresh \in BOOLEAN :
          lrun' = [pc |-> "cache", event |-> event, force_gemini |-> force_gemini,
                   force_refresh |-> force_refresh, calls |-> 0, gemini_ok |-> FALSE,
                   has_map |-> FALSE]
    /\ llog' = [llog EXCEPT !.runs = @ + 1,
                            !.forced = @ \/ lrun'.force_gemini \/ lrun'.force_refresh]
    /\ UNCHANGED <<llm_cache, llm_done>>
    /\ UNCHANGED notLlm

\* the rank_batch branch is not taken
SkipsGemini(run) ==
    \/ YieldsData(llm_cache, run)
    \/ ~should_use_gemini_today(run)
    \/ (llm_done /\ ~run.force_gemini)

\* lines 268-285: the cache is read and the branch chosen
ReadCache ==
    /\ lrun.pc = "cache"
    /\ lrun' = [lrun EXCEPT !.pc = IF SkipsGemini(lrun) THEN "return" ELSE "rank"]
    /\ UNCHANGED <<llm_cache, llm_done, llog>>
    /\ UNCHANGED notLlm

\* rank_batch(llm_payload) returns, with or without entries in its map
RankBatchOk ==
    /\ lrun.pc = "rank"
    /\ \E has_map \in BOOLEAN :
          lrun' = [lrun EXCEPT !.pc = "write_cache", !.calls = @ + 1,
                               !.gemini_ok = TRUE, !.has_map = has_map]
    /\ llog' = [llog EXCEPT !.successes = @ + 1]
    /\ UNCHANGED <<llm_cache, llm_done>>
    /\ UNCHANGED notLlm

\* rank_batch raises: "GEMINI rank_batch FAILED"
RankBatchFails ==
    /\ lrun.pc = "rank"
    /\ lrun' = [lrun EXCEPT !.pc = "return", !.calls = @ + 1]
    /\ llog' = [llog EXCEPT !.failures = @ + 1]
    /\ UNCHANGED <<llm_cache, llm_done>>
    /\ UNCHANGED notLlm

\* llm_cache.write_text succeeds
WriteCache ==
    /\ lrun.pc = "write_cache"
    /\ llm_cache' = [exists |-> TRUE, text |-> CacheText(lrun.has_map)]
    /\ lrun' = [lrun EXCEPT !.pc = "mark"]
    /\ UNCHANGED <<llm_done, llog>>
    /\ UNCHANGED notLlm

\* llm_cache.write_text raises, before or after it opened the file:
\* "Gemini cache write FAILED"
WriteCacheFails ==
    /\ lrun.pc = "write_cache"
    /\ \E opened \in BOOLEAN :
          llm_cache' = IF opened THEN [exists |-> TRUE, text |-> <<>>] ELSE llm_cache
    /\ lrun' = [lrun EXCEPT !.pc = "mark"]
    /\ UNCHANGED <<llm_done, llog>>
    /\ UNCHANGED notLlm

\* if gemini_ok: llm_done.write_text(...)
WriteDone ==
    /\ lrun.pc = "mark"
    /\ llm_done' = TRUE
    /\ lrun' = [lrun EXCEPT !.pc = "return"]
    /\ UNCHANGED <<llm_cache, llog>>
    /\ UNCHANGED notLlm

\* llm_done.write_text raises, before or after it created the file; nothing
\* catches it
WriteDoneFails ==
    /\ lrun.pc = "mark"
    /\ llm_done' \in {llm_done, TRUE}
    /\ lrun' = [lrun EXCEPT !.pc = "raised"]
    /\ UNCHANGED <<llm_cache, llog>>
    /\ UNCHANGED notLlm

\* the run is over, by return or by the exception
EndRun ==
    /\ lrun.pc \in {"return", "raised"}
    /\ lrun' = NoRun
    /\ UNCHANGED <<llm_cache, llm_done, llog>>
    /\ UNCHANGED notLlm

\* the day starts without the two files
LlmInit ==
    /\ llm_cache = NoFile
    /\ llm_done = FALSE
    /\ lrun = NoRun
    /\ llog = [runs |-> 0, forced |-> FALSE, successes |-> 0, failures |-> 0]
    /\ XIdle
    /\ RssIdle
    /\ call = NoCall
    /\ dirExists = FALSE
    /\ dir = {}
    /\ content = <<>>
    /\ pc = "llm"
    /\ clock = 0
    /\ argN = 0
    /\ ret = <<>>
    /\ out = NoOut
    /\ prevOut = NoOut
    /\ runs = 0
    /\ LocalsInit

LlmNext ==
    \/ StartRun
    \/ ReadCache
    \/ RankBatchOk
    \/ RankBatchFails
    \/ WriteCache
    \/ WriteCacheFails
    \/ WriteDone
    \/ WriteDoneFails
    \/ EndRun

LlmSpec == LlmInit /\ [][LlmNext]_vars

\* ------------------------------------------------- fetch_rss (fetch.py)
RSS_RETRIES == 2
\* entries of a feed, and largest limit handed to fetch_rss
MaxEntries == 3
MaxFeedLimit == 3

\* range(RSS_RETRIES + 2)
InRangeOneMore(attempt) == attempt < RSS_RETRIES + 2
\* attempt in range(RSS_RETRIES + 1)
InRange(attempt) == attempt < RSS_RETRIES + 1

\* requests.get returns and raise_for_status passes; feedparser.parse
\* returns a feed
RequestOk ==
    /\ rss.pc = "try"
    /\ InRange(rss.attempt)
    /\ \E k \in 0..MaxEntries :
          rss' = [rss EXCEPT !.pc = "fed", !.requests = @ + 1,
                             !.ok_at = rss.requests + 1, !.entries = k]
    /\ UNCHANGED <<weekly, xVars, llmVars>>

\* requests.get or raise_for_status raises a RequestException: last_error
\* is kept and the loop goes on
RequestFails ==
    /\ rss.pc = "try"
    /\ InRange(rss.attempt)
    /\ rss' = [rss EXCEPT !.requests = @ + 1, !.failed = @ + 1,
                          !.last_error = "RequestException",
                          !.attempt = @ + 1,
                          !.pc = IF InRange(rss.attempt + 1) THEN "try" ELSE "exhausted"]
    /\ UNCHANGED <<weekly, xVars, llmVars>>

\* the attempt raises something that is no RequestException, which leaves
\* _fetch_feed_with_retries at once
RequestBreaks ==
    /\ rss.pc = "try"
    /\ InRange(rss.attempt)
    /\ rss' = [rss EXCEPT !.requests = @ + 1, !.pc = "raised", !.exc = "other"]
    /\ UNCHANGED <<weekly, xVars, llmVars>>

\* raise RuntimeError(...) after the loop
RaiseRuntimeError ==
    /\ rss.pc = "exhausted"
    /\ rss' = [rss EXCEPT !.pc = "raised", !.exc = "RuntimeError"]
    /\ UNCHANGED <<weekly, xVars, llmVars>>

\* fetch_rss: except Exception ... return []
CatchAndReturn ==
    /\ rss.pc = "raised"
    /\ rss' = [rss EXCEPT !.pc = "done", !.ret = <<>>,
                          !.printed = ~rss.quiet]
    /\ UNCHANGED <<weekly, xVars, llmVars>>

\* fetch_rss: one item per entry of entries[:limit]
ReturnItems ==
    /\ rss.pc = "fed"
    /\ rss' = [rss EXCEPT !.pc = "done",
                          !.ret = [i \in 1..Min(rss.entries, rss.limit) |-> i]]
    /\ UNCHANGED <<weekly, xVars, llmVars>>

\* fetch_rss(url, limit, quiet) is called; ret is <<0>> until it returns
FetchInit ==
    /\ \E limit \in 0..MaxFeedLimit, quiet \in BOOLEAN :
          rss = [pc |-> "try", limit |-> limit, quiet |-> quiet, attempt |-> 0,
                 requests |-> 0, failed |-> 0, ok_at |-> 0, entries |-> 0,
                 last_error |-> "None", exc |-> "none", ret |-> <<0>>,
                 printed |-> FALSE]
    /\ XIdle
    /\ LlmIdle
    /\ call = NoCall
    /\ dirExists = FALSE
    /\ dir = {}
    /\ content = <<>>
    /\ pc = "fetch"
    /\ clock = 0
    /\ argN = 0
    /\ ret = <<>>
    /\ out = NoOut
    /\ prevOut = NoOut
    /\ runs = 0
    /\ LocalsInit

FetchNext ==
    \/ RequestOk
    \/ RequestFails
    \/ RequestBreaks
    \/ RaiseRuntimeError
    \/ CatchAndReturn
    \/ ReturnItems

\* every attempt ends (requests.get has a timeout) and the interpreter goes
\* on to the next statement
FetchSpec == FetchInit /\ [][FetchNext]_vars /\ WF_vars(FetchNext)

\* ------------------------------------------------- score_item (score.py)
\* src/score.py KEYWORDS
KEYWORDS ==
    [ infra |->
        <<<<"d","a","t","a","c","e","n","t","e","r">>,
          <<"d","a","t","a"," ","c","e","n","t","e","r">>,
          <<"p","o","w","e","r">>,
          <<"g","r","i","d">>,
          <<"s","u","b","s","t","a","t","i","o","n">>,
          <<"c","o","o","l","i","n","g">>,
          <<"h","b","m">>,
          <<"h","b","m","3">>,
          <<"h","b","m","3","e">>,
          <<"c","o","w","s">>,
          <<"c","o","w","o","s">>,
          <<"p","a","c","k","a","g","i","n","g">>,
          <<"2",".","5","d">>,
          <<"3","d">>,
          <<"t","s","m","c">>,
          <<"s","a","m","s","u","n","g">>,
          <<"i","n","t","e","l"," ","f","o","u","n","d","r","y">>,
          <<"s","u","b","s","t","r","a","t","e">>,
          <<"i","n","t","e","r","c","o","n","n","e","c","t">>,
          <<"b","l","a","c","k","w","e","l","l">>,
          <<"h","o","p","p","e","r">>,
          <<"g","b","2","0","0">>,
          <<"m","i","3","0","0">>,
          <<"v","e","n","i","c","e">>,
          <<"d","i","a","m","o","n","d"," ","r","a","p","i","d","s">>,
          <<"d","r","a","m">>>>,
      models |->
        <<<<"l","l","m">>,
          <<"m","o","d","e","l">>,
          <<"r","e","a","s","o","n","i","n","g">>,
          <<"a","g","e","n","t">>,
          <<"t","o","o","l">>,
          <<"m","c","p">>,
          <<"a","l","i","g","n","m","e","n","t">>,
          <<"r","l">>,
          <<"i","n","f","e","r","e","n","c","e">>,
          <<"t","r","a","i","n","i","n","g">>,
          <<"t","o","k","e","n">>,
          <<"c","o","n","t","e","x","t">>,
          <<"b","e","n","c","h","m","a","r","k">>,
          <<"e","v","a","l">>,
          <<"m","u","l","t","i","m","o","d","a","l">>,
          <<"t","r","a","n","s","f","o","r","m","e","r">>,
          <<"m","i","x","t","u","r","e"," ","o","f"," ","e","x","p","e","r","t","s">>,
          <<"m","o","e">>>>,
      invest |->
        <<<<"e","a","r","n","i","n","g","s">>,
          <<"g","u","i","d","a","n","c","e">>,
          <<"c","a","p","e","x">>,
          <<"o","p","e","x">>,
          <<"m","a","r","g","i","n">>,
          <<"b","a","c","k","l","o","g">>,
          <<"r","e","v","e","n","u","e">>,
          <<"s","u","p","p","l","y">>,
          <<"s","h","o","r","t","a","g","e">>,
          <<"c","o","n","s","t","r","a","i","n","t">>,
          <<"p","r","i","c","e">>,
          <<"p","r","i","c","i","n","g">>>>,
      geopol |->
        <<<<"e","x","p","o","r","t"," ","c","o","n","t","r","o","l">>,
          <<"s","a","n","c","t","i","o","n">>,
          <<"c","h","i","n","a">>,
          <<"t","a","i","w","a","n">>,
          <<"b","i","d","e","n">>,
          <<"e","u"," ","a","i"," ","a","c","t">>,
          <<"b","i","s">>,
          <<"s","o","v","e","r","e","i","g","n">>,
          <<"r","e","g","u","l","a","t","i","o","n">>,
          <<"c","h","i","p"," ","a","c","t">>>>,
      hype |->
        <<<<"b","r","e","a","k","t","h","r","o","u","g","h">>,
          <<"s","t","a","t","e","-","o","f","-","t","h","e","-","a","r","t">>,
          <<"s","o","t","a">>,
          <<"l","a","u","n","c","h">>,
          <<"r","e","l","e","a","s","e","d">>,
          <<"a","n","n","o","u","n","c","e","s">>,
          <<"p","r","e","v","i","e","w">>,
          <<"n","e","w">>,
          <<"f","i","r","s","t">>,
          <<"r","e","c","o","r","d">>,
          <<"m","a","s","s","i","v","e">>>> ]

\* the source names score_item gives a bonus to
sSemiwiki == <<"s","e","m","i","w","i","k","i">>
sNvidia == <<"n","v","i","d","i","a">>
sArxiv == <<"a","r","x","i","v">>
sDeepmind == <<"d","e","e","p","m","i","n","d">>
sGoogleAi == <<"g","o","o","g","l","e"," ","a","i">>

\* str.lower() on the letters the model uses
Capitals ==
    [c \in {"A","B","D","E","G","H","I","L","M","N","S","T","V","W","X"} |->
        CASE c = "A" -> "a" [] c = "B" -> "b" [] c = "D" -> "d" [] c = "E" -> "e"
          [] c = "G" -> "g" [] c = "H" -> "h" [] c = "I" -> "i" [] c = "L" -> "l"
          [] c = "M" -> "m" [] c = "N" -> "n" [] c = "S" -> "s" [] c = "T" -> "t"
          [] c = "V" -> "v" [] c = "W" -> "w" [] c = "X" -> "x"]
lower(s) == [i \in 1..Len(s) |-> IF s[i] \in DOMAIN Capitals THEN Capitals[s[i]] ELSE s[i]]

\* w in t
Contains(t, w) ==
    \E i \in 1..(Len(t) - Len(w) + 1) : SubSeq(t, i, i + Len(w) - 1) = w

\* _count_hits(text, words); the words of a list are distinct
count_hits(text, words) ==
    Cardinality({i \in 1..Len(words) : Contains(lower(text), words[i])})

\* text.strip(): blanks and line feeds
RECURSIVE StripText(_)
StripText(s) ==
    IF s # <<>> /\ Head(s) \in {" ", "\n"} THEN StripText(Tail(s))
    ELSE IF s # <<>> /\ s[Len(s)] \in {" ", "\n"} THEN StripText(SubSeq(s, 1, Len(s) - 1))
    ELSE s

\* f"{title}\n{summary}".strip()
TextOf(title, summary) == StripText(title \o <<"\n">> \o summary)

\* the hit counts of the five keyword lists
Hits(text) == [c \in DOMAIN KEYWORDS |-> count_hits(text, KEYWORDS[c])]

\* the bonus of the source
SourceBonus(source) ==
    LET src == lower(source)
    IN (IF Contains(src, sSemiwiki) THEN 10 ELSE 0)
       + (IF Contains(src, sNvidia) THEN 8 ELSE 0)
       + (IF Contains(src, sArxiv) THEN 4 ELSE 0)
       + (IF Contains(src, sDeepmind) \/ Contains(src, sGoogleAi) THEN 6 ELSE 0)

\* the primary category of the hit counts h
PrimaryOf(h) ==
    IF h.infra >= Max(h.models, Max(h.invest, h.geopol)) THEN "infra"
    ELSE IF h.invest >= Max(h.models, Max(h.infra, h.geopol)) THEN "invest"
    ELSE IF h.models >= Max(h.infra, Max(h.invest, h.geopol)) THEN "models"
    ELSE IF h.geopol > 0 THEN "geopol"
    ELSE "misc"

score_item(title, summary, source) ==
    LET h == Hits(TextOf(title, summary))
        raw == h.infra * 10 + h.invest * 10 + h.models * 5 + h.geopol * 5
               + h.hype * 3 + SourceBonus(source)
    IN [score |-> Max(0, Min(100, raw)),
        primary |-> PrimaryOf(h),
        tags |-> SelectSeq(<<"infra", "invest", "models", "geopol">>,
                           LAMBDA c : h[c] > 0)]

\* titles, summaries and sources handed to score_item
Titles ==
    { <<>>,
      <<"H","B","M","3","E"," ","s","u","p","p","l","y"," ","s","h","o","r","t","a","g","e">>,
      <<"N","e","w"," ","L","L","M"," ","a","g","e","n","t">>,
      <<"T","a","i","w","a","n"," ","e","x","p","o","r","t">>,
      <<"W","o","r","l","d"," ","n","e","w","s">> }
Summaries ==
    { <<>>,
      <<" ","\n">>,
      <<"e","a","r","n","i","n","g","s"," ","g","u","i","d","a","n","c","e"," ","c","a","p","e","x"," ","m","a","r","g","i","n">>,
      <<"h","b","m","3","e"," ","c","o","w","o","s"," ","d","r","a","m"," ","t","s","m","c"," ","s","a","m","s","u","n","g"," ","p","o","w","e","r"," ","g","r","i","d"," ","c","o","o","l","i","n","g"," ","d","a","t","a","c","e","n","t","e","r"," ","p","a","c","k","a","g","i","n","g">>,
      <<"s","a","n","c","t","i","o","n"," ","c","h","i","n","a">> }
SourceNames ==
    { <<>>,
      <<"S","e","m","i","W","i","k","i">>,
      <<"N","V","I","D","I","A"," ","B","l","o","g">>,
      <<"a","r","X","i","v"," ","c","s",".","A","I">>,
      <<"G","o","o","g","l","e"," ","A","I"," ","D","e","e","p","M","i","n","d">> }

ScoreInit ==
    /\ \E title \in Titles, summary \in Summaries, source \in SourceNames :
          call = [fn |-> "score_item", title |-> title, summary |-> summary,
                  source |-> source]
    /\ dirExists = FALSE
    /\ dir = {}
    /\ content = <<>>
    /\ pc = "call"
    /\ clock = 0
    /\ argN = 0
    /\ ret = <<>>
    /\ out = NoOut
    /\ prevOut = NoOut
    /\ runs = 0
    /\ LocalsInit
    /\ AuxIdle

CallScoreItem ==
    /\ pc = "call"
    /\ call.fn = "score_item"
    /\ ret' = score_item(call.title, call.summary, call.source)
    /\ pc' = "returned"
    /\ UNCHANGED <<aux, call, fsVars, clock, argN, locals, out, runs, prevOut>>

ScoreNext == CallScoreItem

ScoreSpec == ScoreInit /\ [][ScoreNext]_vars

\* --------------------------------- apply_llm_results (main.py 311-358)
\* reranked[:15]
FinalCap == 15
\* candidates handed to apply_llm_results, and X items among them
MaxCands == 17
MaxX == 3

sXa == <<"X"," ","a">>
sXe == <<"X","e">>

\* str(it.get("source", "")).startswith("X ")
IsX(it) == Len(it.source) >= 2 /\ it.source[1] = "X" /\ it.source[2] = " "

\* lines 313-329: the LLM's score and entities where results_map has the
\* item's _rid
ApplyLlm(it, results_map) ==
    IF it.rid # 0 /\ DictHas(results_map, it.rid)
    THEN [it EXCEPT !.score = results_map[DictIdx(results_map, it.rid)].v,
                    !.entities = "llm"]
    ELSE it

\* the index of the first item of final_items that is no X item, 0 if none
FirstNonX(final_items) ==
    IF \E i \in 1..Len(final_items) : ~IsX(final_items[i])
    THEN CHOOSE i \in 1..Len(final_items) :
            /\ ~IsX(final_items[i])
            /\ \A j \in 1..(i - 1) : IsX(final_items[j])
    ELSE 0
\* lines 341-345: the index of the last item of final_items that is no X
\* item, 0 if none
LastNonX(final_items) ==
    IF \E i \in 1..Len(final_items) : ~IsX(final_items[i])
    THEN CHOOSE i \in 1..Len(final_items) :
            /\ ~IsX(final_items[i])
            /\ \A j \in (i + 1)..Len(final_items) : IsX(final_items[j])
    ELSE 0

\* lines 340-351: the loop over remaining_x; removed collects the items
\* that were replaced
RECURSIVE ReplaceLoop(_, _, _, _)
ReplaceLoop(final_items, remaining_x, need, removed) ==
    IF remaining_x = <<>> \/ LastNonX(final_items) = 0
    THEN [items |-> final_items, removed |-> removed]
    ELSE LET i == LastNonX(final_items)
             next == [final_items EXCEPT ![i] = Head(remaining_x)]
             gone == Append(removed, final_items[i])
         IN IF need - 1 <= 0 THEN [items |-> next, removed |-> gone]
            ELSE ReplaceLoop(next, Tail(remaining_x), need - 1, gone)

\* lines 354-356: an item without entities gets those of its title
FillEntities(it) ==
    IF it.entities = "empty" THEN [it EXCEPT !.entities = "title"] ELSE it

\* apply_llm_results(candidates, results_map) with env_int("MIN_X_ITEMS", 2)
\* = min_x; what it returns, and the items its replacements removed
apply_llm_results(candidates, results_map, min_x) ==
    LET reranked == SortDesc("score", [i \in 1..Len(candidates) |->
                                          ApplyLlm(candidates[i], results_map)])
        final_items == Take(reranked, FinalCap)
        min_x_items == Max(0, min_x)
        x_in_final == Cardinality({i \in 1..Len(final_items) : IsX(final_items[i])})
        need == Max(0, min_x_items - x_in_final)
        remaining_x == SelectSeq(reranked, LAMBDA it :
                          IsX(it) /\ \A i \in 1..Len(final_items) : final_items[i] # it)
        swapped == ReplaceLoop(final_items, remaining_x, need, <<>>)
        done == IF min_x_items > 0 /\ need > 0
                THEN [items |-> SortDesc("score", swapped.items),
                      removed |-> swapped.removed]
                ELSE [items |-> final_items, removed |-> <<>>]
    IN [items |-> [i \in 1..Len(done.items) |-> FillEntities(done.items[i])],
        removed |-> done.removed]

\* where the X items of a candidate list of n items may sit
XSpots(len) == {1, 2, FinalCap, FinalCap + 1, len - 1, len} \cap 1..len

\* candidates as main hands them over: the first 15 carry the _rid that
\* generate_llm_data gave them, the scores fall or are all equal
Candidates(len, xs, falling) ==
    [i \in 1..len |->
        [id |-> i,
         rid |-> IF i <= FinalCap THEN i ELSE 0,
         source |-> IF i \in xs THEN sXa ELSE IF i % 2 = 0 THEN sXe ELSE sRss,
         score |-> IF falling THEN 2 * (len - i) + 10 ELSE 50,
         entities |-> IF i % 3 = 0 THEN "empty" ELSE "listed"]]

\* results_map: empty, or the LLM's score for one _rid
ResultMaps ==
    { <<>>, <<[name |-> 1, v |-> 0]>>, <<[name |-> FinalCap, v |-> 100]>> }

\* values of env_int("MIN_X_ITEMS", 2)
MinXValues == {0, 2, 3}

ApplyInit ==
    /\ \E len \in 0..MaxCands :
       \E xs \in {s \in SUBSET XSpots(len) : Cardinality(s) <= MaxX} :
       \E falling \in BOOLEAN, results_map \in ResultMaps, min_x \in MinXValues :
          call = [fn |-> "apply_llm_results",
                  candidates |-> Candidates(len, xs, falling),
                  results_map |-> results_map, min_x |-> min_x]
    /\ dirExists = FALSE
    /\ dir = {}
    /\ content = <<>>
    /\ pc = "call"
    /\ clock = 0
    /\ argN = 0
    /\ ret = <<>>
    /\ out = NoOut
    /\ prevOut = NoOut
    /\ runs = 0
    /\ LocalsInit
    /\ AuxIdle

CallApplyLlmResults ==
    /\ pc = "call"
    /\ call.fn = "apply_llm_results"
    /\ ret' = apply_llm_results(call.candidates, call.results_map, call.min_x)
    /\ pc' = "returned"
    /\ UNCHANGED <<aux, call, fsVars, clock, argN, locals, out, runs, prevOut>>

ApplyNext == CallApplyLlmResults

ApplySpec == ApplyInit /\ [][ApplyNext]_vars

\* ------------------------------------------------------------------ claims
\* the series builder has gone through every day of the window
BuilderDone == pc \in {"build", "ranked", "analyzed"} /\ di > n

\* the objects among the items of day i
DictItems(i) ==
    LET items == ItemsOf(snapshots[i])
    IN {items[k] : k \in {k \in 1..Len(items) : items[k].t = "dict"}}

\* the entity keys an item carries
EntityKeys(it) ==
    LET es == EntitiesOf(it)
    IN {Strip(es[k].s) : k \in {k \in 1..Len(es) : es[k].t = "str" /\ Strip(es[k].s) # <<>>}}

CatKeysOn(i) == {CatKey(it) : it \in DictItems(i)}
SourceKeysOn(i) == {SourceKey(it) : it \in DictItems(i)}
EntKeysOn(i) == UNION {EntityKeys(it) : it \in DictItems(i)}

\* every key seen on a day has a series; every series has one count >= 0 per
\* day of the window, 0 on the days without the key
SeriesComplete(dct, KeysOn(_)) ==
    /\ \A i \in 1..n : KeysOn(i) \subseteq DictKeys(dct)
    /\ \A e \in 1..Len(dct) :
          /\ Len(dct[e].v) = n
          /\ \A i \in 1..n :
                /\ dct[e].v[i] \in Nat
                /\ dct[e].name \notin KeysOn(i) => dct[e].v[i] = 0

\* C1: once the series builder has run over a window of N snapshots, every key
\* seen on any day, in each of the entity, category and source key spaces, has a
\* count series of length exactly N, with a count >= 0 per day and 0 on every
\* day on which the key did not occur.
C1_FullLengthSeries ==
    BuilderDone =>
       /\ SeriesComplete(ent_series, EntKeysOn)
       /\ SeriesComplete(cat_series, CatKeysOn)
       /\ SeriesComplete(source_series, SourceKeysOn)

\* a window of several days with an entity present on one day and absent on
\* another
C1_Witness ==
    /\ BuilderDone
    /\ n >= 2
    /\ \E e \in 1..Len(ent_series) :
          \E i, k \in 1..n : ent_series[e].v[i] > 0 /\ ent_series[e].v[k] = 0

\* a date-named snapshot file, by its name alone
DateNamed(p) == p.suffix = ".json" /\ p.tail = "" /\ p.y >= 2000

NoSnapshotFile == ~dirExists \/ ~\E p \in dir : DateNamed(p)

\* C2: with no snapshot file present (directory missing, empty, or holding no
\* date-named .json file) the weekly run has N = 0, raises nothing and ends by
\* writing the "No data" result, which has no ranked list.
C2_NoDataWhenNoSnapshot ==
    NoSnapshotFile =>
       /\ pc \in {"start", "listed", "done"}
       /\ files = <<>> /\ n = 0
       /\ pc = "done" =>
             /\ out.kind = "nodata" /\ out.n = 0
             /\ out.ents = <<>> /\ out.cats = <<>> /\ out.sources = <<>>

\* a run that ended over a directory holding only cache and marker files
C2_Witness ==
    /\ pc = "done"
    /\ dirExists /\ dir = {CacheName, DoneName}
    /\ out.kind = "nodata"

\* C3: a wrongly shaped item or items field is skipped and the series builder
\* never raises to its caller.
C3_NeverRaises == pc # "raised"

\* C4: load_day never raises: a file that fails to parse or parses to a value
\* that is no object loads as an empty day (date = file stem, items = []), an
\* object loads as itself with date and items defaulted when absent, and every
\* file of the window is loaded, whatever the files before it hold.
C4_LoadDayDefaults ==
    pc \in {"build", "ranked"} =>
       /\ Len(snapshots) = Len(files)
       /\ \A i \in 1..Len(files) :
             LET c == content[files[i]]
                 s == snapshots[i]
             IN /\ c.t \in {"garbage", "nonobj"} =>
                      s.date = Stem(files[i]) /\ s.items = List(<<>>)
                /\ c.t = "obj" =>
                      /\ c.date = NoDate => s.date = Stem(files[i])
                      /\ c.date # NoDate => s.date = c.date
                      /\ c.items.t = "absent" => s.items = List(<<>>)
                      /\ c.items.t # "absent" => s.items = c.items

\* a window whose first file does not parse, followed by an object without
\* date and items
C4_Witness ==
    /\ pc = "build"
    /\ \E i, k \in 1..Len(files) :
          /\ i < k
          /\ content[files[i]].t = "garbage"
          /\ content[files[k]] = Object(NoDate, NoList)
          /\ snapshots[k] = EmptyDay(files[k])

\* the stem of p reads as a calendar date YYYY-MM-DD
StemIsDate(p) ==
    p.tail = "" /\ p.y \in 1..9999 /\ p.m \in 1..12 /\ p.d \in 1..DaysInMonth(p.y, p.m)

ValidFiles == {p \in dir : p.suffix = ".json" /\ is_file(content[p]) /\ StemIsDate(p)}

\* C5: list_latest(n), n >= 0, returns exactly the min(n, number of valid
\* files) latest-dated files among the .json files whose stem parses as a
\* date, in ascending date order, and never a file whose name is no date.
C5_LatestAtMostN ==
    pc = "returned" =>
       LET valid == IF dirExists THEN ValidFiles ELSE {}
           got == {ret[i] : i \in 1..Len(ret)}
       IN /\ Len(ret) = Min(argN, Cardinality(valid))
          /\ got \subseteq valid
          /\ \A i \in 1..Len(ret) - 1 : DateLess(parse_date(ret[i]), parse_date(ret[i + 1]))
          /\ \A p \in valid \ got, q \in got : DateLess(parse_date(p), parse_date(q))

\* the count of key on day i, 0 when the key has no series
SeriesAt(dct, key, i) == IF DictHas(dct, key) THEN dct[DictIdx(dct, key)].v[i] ELSE 0

\* how many of the positions of items satisfy P
CountItems(items, P(_)) == Cardinality({k \in 1..Len(items) : P(items[k])})

\* C6: for every entity key and day, the count is the number of items of that
\* day that carry the entity; an item listing it twice counts once.
C6_EntityCountIsItemCount ==
    BuilderDone =>
       \A i \in 1..n : \A key \in DictKeys(ent_series) \cup EntKeysOn(i) :
          LET Carries(it) == it.t = "dict" /\ key \in EntityKeys(it)
          IN SeriesAt(ent_series, key, i) = CountItems(ItemsOf(snapshots[i]), Carries)

\* a string value that is absent, empty or only blanks
Blank(v) == v.t # "str" \/ Strip(v.s) = <<>>

\* the category and source keys the claim assigns to an item
ClaimedCat(it) == IF Blank(it.primary) THEN sMisc ELSE Strip(it.primary.s)
ClaimedSource(it) == IF Blank(it.source) THEN sUnknown ELSE Strip(it.source.s)

\* C7: each item counts once in the category series and once in the source
\* series of its day, under "misc" when its primary is absent or blank and
\* under "unknown" when its source is absent or blank; no empty key exists.
C7_BlankDefaults ==
    BuilderDone =>
       /\ <<>> \notin DictKeys(cat_series) \cup DictKeys(source_series)
       /\ \A i \in 1..n :
             /\ \A key \in DictKeys(cat_series) \cup {ClaimedCat(it) : it \in DictItems(i)} :
                   LET Has(it) == it.t = "dict" /\ ClaimedCat(it) = key
                   IN SeriesAt(cat_series, key, i) = CountItems(ItemsOf(snapshots[i]), Has)
             /\ \A key \in DictKeys(source_series)
                              \cup {ClaimedSource(it) : it \in DictItems(i)} :
                   LET Has(it) == it.t = "dict" /\ ClaimedSource(it) = key
                   IN SeriesAt(source_series, key, i) = CountItems(ItemsOf(snapshots[i]), Has)

\* C8: entity strings that normalize_entity maps to the same name (surrounding
\* blanks, runs of blanks, an alias) are tallied under one key.
C8_NormalizedKeys ==
    BuilderDone =>
       \A k1, k2 \in DictKeys(ent_series) :
          normalize_entity(k1) = normalize_entity(k2) => k1 = k2

TiesByName(kind, rows) ==
    \A i \in 1..Len(rows) - 1 :
       KeyCmp(kind, rows[i], rows[i + 1]) = 0 => StrLess(rows[i].name, rows[i + 1].name)

\* C10: two keys with identical ranking tuples are ordered by ascending key
\* name, whatever the order in which the snapshots brought them up.
C10_TiesByName ==
    pc = "ranked" =>
       /\ TiesByName("ent", ent_rows)
       /\ TiesByName("cat", cat_rows)
       /\ TiesByName("source", source_rows)

\* ------------------------------------------------------ anomalies, claims
\* the counts of days lo..hi (days numbered from 1) added up
RECURSIVE SumDays(_, _, _)
SumDays(s, lo, hi) == IF lo > hi THEN 0 ELSE s[lo] + SumDays(s, lo + 1, hi)

Listed(rows, name) == \E j \in 1..Len(rows) : rows[j].name = name

\* zero before the trailing k = min(3, N) days, positive within them
ClaimedNewEntrant(s, len) ==
    LET k == IF len < 3 THEN len ELSE 3
    IN SumDays(s, 1, len - k) = 0 /\ SumDays(s, len - k + 1, len) > 0

QualifyingNew == {i \in 1..Len(ent_rows) : ClaimedNewEntrant(ent_rows[i].series, n)}

\* C11 as stated: an entity is in the new-entrant list exactly when its counts
\* before the trailing k = min(3, N) days sum to 0 and its counts within them
\* sum to more than 0.
C11_NewEntrantExactly ==
    pc = "analyzed" =>
       \A i \in 1..Len(ent_rows) :
          Listed(new_ents, ent_rows[i].name)
             <=> ClaimedNewEntrant(ent_rows[i].series, n)

\* C11 amended: the new-entrant list holds only entities whose counts before
\* the trailing k = min(3, N) days sum to 0 and whose counts within them sum to
\* more than 0 (so never one with a positive count on day N-k-1); it holds all
\* of them when at most 8 qualify, and otherwise 8 of them, none ranked by
\* (weighted_total, last, delta) below a qualifying entity that is left out.
C11_NewEntrantCapped ==
    pc = "analyzed" =>
       /\ \A i \in 1..Len(ent_rows) :
             Listed(new_ents, ent_rows[i].name) => i \in QualifyingNew
       /\ Len(new_ents) = Min(8, Cardinality(QualifyingNew))
       /\ \A j \in 1..Len(new_ents) : \A i \in QualifyingNew :
             \/ Listed(new_ents, ent_rows[i].name)
             \/ NewKeyCmp(new_ents[j], ent_rows[i]) >= 0

\* a window of more than three days in which one entity, counted on the day
\* just before the trailing three, is kept out while another is listed
C11_Witness ==
    /\ pc = "analyzed"
    /\ n >= 4
    /\ new_ents # <<>>
    /\ \E i \in 1..Len(ent_rows) :
          /\ ent_rows[i].series[n - 3] > 0
          /\ SumDays(ent_rows[i].series, n - 2, n) > 0
          /\ ~Listed(new_ents, ent_rows[i].name)

\* last-day count >= 2 and twice the prior counts at most the prior days
ClaimedBreakout(s) ==
    /\ s[Len(s)] >= 2
    /\ 2 * SumDays(s, 1, Len(s) - 1) <= Len(s) - 1

QualifyingBreakout == {i \in 1..Len(ent_rows) : ClaimedBreakout(ent_rows[i].series)}

\* C12 as stated: an entity is in the breakout list exactly when its last-day
\* count is >= 2 and the mean of its counts over all prior days is <= 0.5.
C12_BreakoutExactly ==
    pc = "analyzed" =>
       \A i \in 1..Len(ent_rows) :
          Listed(breakouts, ent_rows[i].name) <=> ClaimedBreakout(ent_rows[i].series)

\* C12 amended: the breakout list holds only entities whose last-day count is
\* >= 2 and whose prior counts have a mean <= 0.5 (twice their sum is at most
\* the number of prior days; a mean of exactly 0.5 qualifies, a larger one does
\* not); it holds all of them when at most 8 qualify, and otherwise 8 of them,
\* none ranked by (last, weighted_total, delta) below one that is left out.
C12_BreakoutCapped ==
    pc = "analyzed" =>
       /\ \A i \in 1..Len(ent_rows) :
             Listed(breakouts, ent_rows[i].name) => i \in QualifyingBreakout
       /\ Len(breakouts) = Min(8, Cardinality(QualifyingBreakout))
       /\ \A j \in 1..Len(breakouts) : \A i \in QualifyingBreakout :
             \/ Listed(breakouts, ent_rows[i].name)
             \/ BreakoutKeyCmp(breakouts[j], ent_rows[i]) >= 0

\* an entity listed as breakout with a prior mean of exactly 0.5
C12_Witness ==
    /\ pc = "analyzed"
    /\ \E j \in 1..Len(breakouts) :
          /\ SumDays(breakouts[j].series, 1, n - 1) > 0
          /\ 2 * SumDays(breakouts[j].series, 1, n - 1) = n - 1

\* -------------------------------------------------- concentration, claims
Returned(fn) == pc = "returned" /\ call.fn = fn

PositiveKeys(counts) == {i \in 1..Len(counts) : RCmp(counts[i].v, RInt(0)) > 0}

\* C13: hhi_from_counts of non-negative weighted totals lies in [0, 1]; it is 0
\* when the total is <= 0, 1/k when k keys hold equal positive totals, and 1
\* exactly when a single key holds all the mass.
C13_HhiRange ==
    Returned("concentration") =>
       LET counts == call.counts
           k == Len(counts)
       IN /\ RCmp(ret.hhi, RInt(0)) >= 0 /\ RCmp(ret.hhi, RInt(1)) <= 0
          /\ RCmp(TotalOf(counts), RInt(0)) <= 0 => ret.hhi = RInt(0)
          /\ (k >= 1 /\ PositiveKeys(counts) = 1..k
                /\ \A i \in 1..k : counts[i].v = counts[1].v) => ret.hhi = Rat(1, k)
          /\ ret.hhi = RInt(1) <=> Cardinality(PositiveKeys(counts)) = 1

\* three keys with equal positive totals, and the index 1/3
C13_Witness ==
    /\ Returned("concentration")
    /\ Len(call.counts) = 3
    /\ PositiveKeys(call.counts) = 1..3
    /\ \A i \in 1..3 : call.counts[i].v = call.counts[1].v
    /\ ret.hhi = Rat(1, 3)

\* the values of the entries S of a mapping added up
RECURSIVE SumOver(_, _)
SumOver(counts, S) ==
    IF S = {} THEN RInt(0)
    ELSE LET i == CHOOSE j \in S : TRUE
         IN RAdd(counts[i].v, SumOver(counts, S \ {i}))

\* the largest sum that m entries of a mapping can reach
LargestSum(counts, m) ==
    LET picks == {S \in SUBSET (1..Len(counts)) : Cardinality(S) = Min(m, Len(counts))}
        best == CHOOSE S \in picks :
                   \A T \in picks : RCmp(SumOver(counts, S), SumOver(counts, T)) >= 0
    IN SumOver(counts, best)

\* C14: top_share(counts, n) is the sum of the n largest values divided by the
\* sum of all values; it lies in [0, 1], is 1 whenever the total is positive
\* and at most n keys hold a positive total, and is 0 when the total is <= 0.
C14_TopShare ==
    Returned("concentration") =>
       LET counts == call.counts
           total == TotalOf(counts)
       IN /\ RCmp(ret.top, RInt(0)) >= 0 /\ RCmp(ret.top, RInt(1)) <= 0
          /\ IF RCmp(total, RInt(0)) <= 0
             THEN ret.top = RInt(0)
             ELSE /\ ret.top = RDiv(LargestSum(counts, call.topn), total)
                  /\ Cardinality(PositiveKeys(counts)) <= call.topn => ret.top = RInt(1)

\* more keys than topn, the largest value last in the mapping
C14_Witness ==
    /\ Returned("concentration")
    /\ call.topn \in 1..(Len(call.counts) - 1)
    /\ \A i \in 1..(Len(call.counts) - 1) :
          RCmp(call.counts[i].v, call.counts[Len(call.counts)].v) < 0
    /\ RCmp(ret.top, RInt(0)) > 0 /\ RCmp(ret.top, RInt(1)) < 0

\* ---------------------------------------------------------- streak, claims
\* the rows of the three key spaces
AllRows ==
    {ent_rows[i] : i \in 1..Len(ent_rows)} \cup {cat_rows[i] : i \in 1..Len(cat_rows)}
       \cup {source_rows[i] : i \in 1..Len(source_rows)}

\* k is the length of the longest suffix of s whose counts are all positive
LongestPositiveSuffix(s, k) ==
    /\ k \in 0..Len(s)
    /\ \A i \in (Len(s) - k + 1)..Len(s) : s[i] > 0
    /\ k < Len(s) => s[Len(s) - k] <= 0

\* C15: the streak of a count series of length N is the length of its longest
\* suffix of strictly positive counts: 0 whenever the last day's count is 0,
\* and N exactly when every day's count is > 0.
C15_StreakIsPositiveSuffix ==
    pc = "ranked" =>
       \A r \in AllRows :
          /\ Len(r.series) = n
          /\ LongestPositiveSuffix(r.series, r.streak)
          /\ r.series[n] = 0 => r.streak = 0
          /\ r.streak = n <=> \A i \in 1..n : r.series[i] > 0

\* a series with a positive day, then a day of zero, then a positive suffix
\* shorter than the window
C15_Witness ==
    /\ pc = "ranked"
    /\ \E r \in AllRows :
          /\ r.streak \in 1..(n - 2)
          /\ \E i \in 1..(n - r.streak - 1) : r.series[i] > 0

\* -------------------------------------------------------- rotation, claims
\* the shares of days lo..hi added up
RECURSIVE SumShares(_, _, _)
SumShares(s, lo, hi) == IF lo > hi THEN RInt(0) ELSE RAdd(s[lo], SumShares(s, lo + 1, hi))

\* mean of the last k shares minus mean of the first k,
\* k = min(3, max(1, N // 2))
ClaimedDelta(shares) ==
    LET len == Len(shares)
        half == IF len \div 2 < 1 THEN 1 ELSE len \div 2
        k == IF half > 3 THEN 3 ELSE half
    IN RSub(RDiv(SumShares(shares, len - k + 1, len), RInt(k)),
            RDiv(SumShares(shares, 1, k), RInt(k)))

CatRowOf(name) == cat_rows[CHOOSE i \in 1..Len(cat_rows) : cat_rows[i].name = name]

\* C16: the share of a category on day i is its count over max(1, items of the
\* day), so it lies in [0, 1] and is 0 on a day without items; the rotation
\* delta of a category is the mean of its last k shares minus the mean of its
\* first k shares, k = min(3, max(1, N // 2)).
C16_SharesAndRotation ==
    pc = "analyzed" =>
       /\ \A c \in 1..Len(cat_rows) : \A i \in 1..n :
             LET share == cat_rows[c].share[i]
                 items == total_items_per_day[i]
             IN /\ RMul(share, RInt(IF items < 1 THEN 1 ELSE items))
                      = RInt(cat_rows[c].series[i])
                /\ RCmp(share, RInt(0)) >= 0 /\ RCmp(share, RInt(1)) <= 0
                /\ items = 0 => share = RInt(0)
       /\ \A j \in 1..Len(rot) :
             /\ Listed(cat_rows, rot[j].name)
             /\ rot[j].delta = ClaimedDelta(CatRowOf(rot[j].name).share)
       /\ n >= 2 => \A c \in 1..Len(cat_rows) : Listed(rot, cat_rows[c].name)

\* a window with a day without items, a category with part of a day's items
\* and a category whose share moved
C16_Witness ==
    /\ pc = "analyzed"
    /\ \E i \in 1..n : total_items_per_day[i] = 0
    /\ \E c \in 1..Len(cat_rows) : \E i \in 1..n :
          RCmp(cat_rows[c].share[i], RInt(0)) > 0 /\ RCmp(cat_rows[c].share[i], RInt(1)) < 0
    /\ \E j \in 1..Len(rot) : RCmp(rot[j].delta, RInt(0)) < 0

\* the names of a list are distinct names of cats
DistinctAmong(list, cats) ==
    /\ \A j \in 1..Len(list) : list[j].name \in cats
    /\ \A j, l \in 1..Len(list) : list[j].name = list[l].name => j = l

DeltaOf(name) == ClaimedDelta(CatRowOf(name).share)

\* list holds (at most 5 of) cats, largest delta first when sgn = 1 and
\* smallest first when sgn = -1, and no name of cats left out lies beyond the
\* last entry
ExtremeCategories(list, cats, sgn) ==
    /\ Len(list) = Min(5, Cardinality(cats))
    /\ DistinctAmong(list, cats)
    /\ \A j \in 1..Len(list) : list[j].delta = DeltaOf(list[j].name)
    /\ \A j \in 1..(Len(list) - 1) : sgn * RCmp(list[j].delta, list[j + 1].delta) >= 0
    /\ \A c \in cats :
          \/ Listed(list, c)
          \/ sgn * RCmp(DeltaOf(c), list[Len(list)].delta) <= 0

CatNames == {cat_rows[i].name : i \in 1..Len(cat_rows)}

\* C17 as stated: risers are the (at most 5) categories with the largest
\* rotation delta, largest first; fallers the (at most 5) with the smallest,
\* most negative first; no category outside a list lies beyond its last entry.
C17_RisersAndFallers ==
    pc = "analyzed" =>
       /\ ExtremeCategories(risers, CatNames, 1)
       /\ ExtremeCategories(fallers, CatNames, -1)

\* C17 amended: in a window of at least two days risers are the (at most 5)
\* categories with the largest rotation delta, largest first, and fallers the
\* (at most 5) with the smallest, most negative first, no category outside a
\* list lying beyond its last entry; in a window of one day both lists are
\* empty.
C17_RisersAndFallersFromTwoDays ==
    pc = "analyzed" =>
       LET cats == IF n >= 2 THEN CatNames ELSE {}
       IN /\ ExtremeCategories(risers, cats, 1)
          /\ ExtremeCategories(fallers, cats, -1)

\* six categories, five in each list, the deltas of the lists' ends apart
C17_Witness ==
    /\ pc = "analyzed"
    /\ Len(rot) >= 6
    /\ Len(risers) = 5 /\ Len(fallers) = 5
    /\ RCmp(risers[1].delta, risers[5].delta) > 0
    /\ RCmp(fallers[1].delta, fallers[5].delta) < 0

\* -------------------------------------------------------- evidence, claims
\* the places <<d, i>> of the items of snaps that match
MatchingPlaces(kind, snaps, target) ==
    {pl \in (1..Len(snaps)) \X (1..MaxPickItems) :
        /\ pl[2] <= Len(ItemsOf(snaps[pl[1]]))
        /\ ItemsOf(snaps[pl[1]])[pl[2]].t = "dict"
        /\ Matches(kind, ItemsOf(snaps[pl[1]])[pl[2]], target)}

\* newest snapshot first, and within a snapshot in item order
Before(a, b) == a[1] > b[1] \/ (a[1] = b[1] /\ a[2] < b[2])

\* hits are the first min(limit, m) of the m matching places
FirstMatching(hits, places, limit) ==
    /\ Len(hits) = Min(limit, Cardinality(places))
    /\ \A j \in 1..Len(hits) : hits[j] \in places
    /\ \A j \in 1..(Len(hits) - 1) : Before(hits[j], hits[j + 1])
    /\ \A pl \in places :
          \/ \E j \in 1..Len(hits) : hits[j] = pl
          \/ \A j \in 1..Len(hits) : Before(hits[j], pl)

\* C18: pick_items_for_entity and pick_items_for_category return exactly the
\* first min(limit, m) of the m matching items, taken from the newest snapshot
\* to the oldest and in item order within a snapshot; never more than limit.
C18_FirstLimitMatches ==
    Returned("pick") =>
       /\ FirstMatching(ret, MatchingPlaces(call.kind, call.snaps, call.target),
                        call.limit)
       /\ Len(ret) <= call.limit

\* the item carries an entity string that the series builder counted under key
Contributes(it, key) ==
    /\ it.t = "dict"
    /\ \E i \in 1..Len(EntitiesOf(it)) :
          EntitiesOf(it)[i].t = "str" /\ Strip(EntitiesOf(it)[i].s) = key

\* the places <<d, i>> of the items of the window counted under key
ContributingPlaces(key) ==
    UNION { { <<d, i>> : i \in {j \in 1..Len(ItemsOf(snapshots[d])) :
                                  Contributes(ItemsOf(snapshots[d])[j], key)} } :
            d \in 1..Len(snapshots) }

\* C19: the evidence of an entity key K is picked among exactly the items that
\* contributed to the count series of K: every picked item contributed, and
\* while fewer than the limit of 6 are picked no contributing item is missing.
C19_EvidenceIsWhatWasCounted ==
    pc = "analyzed" =>
       \A c \in 1..Len(clusters) :
          LET hits == {clusters[c].items[j] : j \in 1..Len(clusters[c].items)}
              counted == ContributingPlaces(clusters[c].name)
          IN /\ hits \subseteq counted
             /\ Len(clusters[c].items) < 6 => counted \subseteq hits

\* --------------------------------------------------------- ranking, claims
\* a tuple is >= another, given the signs of the componentwise differences
RECURSIVE TupleGE(_)
TupleGE(signs) ==
    \/ signs = <<>>
    \/ Head(signs) > 0
    \/ Head(signs) = 0 /\ TupleGE(Tail(signs))

\* every row's tuple is >= the next row's
NonIncreasing(rows, Signs(_, _)) ==
    \A i \in 1..(Len(rows) - 1) : TupleGE(Signs(rows[i], rows[i + 1]))

RECURSIVE SumX(_, _)
SumX(xs, i) == IF i > Len(xs) THEN 0 ELSE xs[i] + SumX(xs, i + 1)

RECURSIVE SumIX(_, _)
SumIX(xs, i) == IF i > Len(xs) THEN 0 ELSE (i - 1) * xs[i] + SumIX(xs, i + 1)

\* sum of i and of i^2 over i = 0..len-1
SumI(len) == (len * (len - 1)) \div 2
SumII(len) == ((len - 1) * len * (2 * len - 1)) \div 6

\* N * sum(i^2) - sum(i)^2, the denominator of the least-squares slope
OlsDen(len) == len * SumII(len) - SumI(len) * SumI(len)

\* C21: slope(xs) is the least-squares slope of xs against the indices 0..N-1:
\* 0 for N < 2, 0 for a constant series, exactly b for a series a + b*i; the
\* denominator is not zero for N >= 2.
C21_SlopeIsLeastSquares ==
    Returned("slope") =>
       LET xs == call.xs
           len == Len(xs)
       IN /\ len < 2 => ret = RInt(0)
          /\ len >= 2 =>
                /\ OlsDen(len) # 0
                /\ ret = Rat(len * SumIX(xs, 1) - SumI(len) * SumX(xs, 1), OlsDen(len))
          /\ (\A i \in 1..len : xs[i] = xs[1]) => ret = RInt(0)
          /\ \A a \in 0..MaxCount, b \in (0 - MaxCount)..MaxCount :
                (len >= 2 /\ \A i \in 1..len : xs[i] = a + b * (i - 1)) => ret = RInt(b)

\* the series [0, 1, 2] and the slope 1
C21_Witness ==
    /\ Returned("slope")
    /\ call.xs = <<0, 1, 2>>
    /\ ret = RInt(1)

\* the weighted counts of the days of S added up
RECURSIVE WeightedOver(_, _, _)
WeightedOver(xs, weights, S) ==
    IF S = {} THEN WZero
    ELSE LET i == CHOOSE j \in S : TRUE
         IN WAdd(WScale(xs[i], weights[i]), WeightedOver(xs, weights, S \ {i}))

\* C22: delta_recent_vs_early is 0 for a series of length N < 4; for N >= 4 it
\* is the weighted sum of the last k days minus the weighted sum of the first
\* k days, k = min(3, N // 2), and the two windows share no day.
C22_DeltaWindows ==
    Returned("delta") =>
       LET xs == call.xs
           len == Len(xs)
           k == IF len \div 2 > 3 THEN 3 ELSE len \div 2
           early == 1..k
           recent == (len - k + 1)..len
           weights == recency_weights(len)
       IN /\ len < 4 => ret = WZero
          /\ len >= 4 =>
                /\ early \cap recent = {}
                /\ ret = WSub(WeightedOver(xs, weights, recent),
                              WeightedOver(xs, weights, early))

\* a series of four days or more whose recent days outweigh its early ones
C22_Witness ==
    /\ Returned("delta")
    /\ Len(call.xs) >= 4
    /\ WSign(ret) > 0
    /\ call.xs[1] > 0

\* -------------------------------------------- risers and fallers, claims
NamesOf(list) == {list[j].name : j \in 1..Len(list)}

NoRepeat(list) == \A j, l \in 1..Len(list) : list[j].name = list[l].name => j = l

\* C27 as stated: no category is in both the risers list and the fallers list.
C27_NoCategoryInBoth ==
    Returned("rotation") => NamesOf(ret.risers) \cap NamesOf(ret.fallers) = {}

\* C27 amended: neither list names a category twice, and with L categories
\* ranked the categories in both lists are those ranked L-4..5: none when
\* L >= 10 (or L = 0), and at least one whenever 1 <= L <= 9.
C27_InBothBelowTenCategories ==
    Returned("rotation") =>
       LET len == Len(call.rot)
           both == NamesOf(ret.risers) \cap NamesOf(ret.fallers)
       IN /\ NoRepeat(ret.risers) /\ NoRepeat(ret.fallers)
          /\ both = {call.rot[p].name : p \in Max(1, len - 4)..Min(5, len)}
          /\ len >= 10 => both = {}
          /\ len \in 1..9 => both # {}

\* ten categories or more, five in each list, none in both
C27_Witness ==
    /\ Returned("rotation")
    /\ Len(call.rot) >= 10
    /\ Len(ret.risers) = 5 /\ Len(ret.fallers) = 5
    /\ NamesOf(ret.risers) \cap NamesOf(ret.fallers) = {}
    /\ RCmp(ret.risers[1].delta, ret.fallers[1].delta) > 0

\* ---------------------------------------------------------- shares, claims
\* the shares of all categories on day i added up
DayShares(i) == RSum([c \in 1..Len(cat_rows) |-> cat_rows[c].share[i]], 1)

\* C28: on a day with at least one item the shares of all categories sum to
\* exactly 1; on a day without items every category share is 0.
C28_SharesSumToOne ==
    pc = "ranked" =>
       \A i \in 1..n :
          IF total_items_per_day[i] >= 1
          THEN DayShares(i) = RInt(1)
          ELSE \A c \in 1..Len(cat_rows) : cat_rows[c].share[i] = RInt(0)

\* C24: within one process the cache file is read at most once, and only on
\* the first access; the file changes only inside a _save_cache call of a
\* process whose in-memory cache is dirty and whose cache is enabled; a write
\* that succeeded leaves the dirty flag cleared, a write that failed leaves it
\* set, and no call ends by raising
C24_CacheDiscipline ==
    /\ [](\A p \in Procs :
            /\ xlog.reads[p] <= 1
            /\ xlog.call[p].end = "written" => ~CACHE_DIRTY[p]
            /\ xlog.call[p].end = "failed" => CACHE_DIRTY[p]
            /\ xlog.call[p].end # "raised")
    /\ [][/\ \A p \in Procs : xlog'.reads[p] > xlog.reads[p] => ~CACHE_LOADED[p]
          /\ cache_file' # cache_file =>
                /\ xlog'.call[xlog'.actor].fn = "save"
                /\ CACHE_DIRTY[xlog'.actor]
                /\ cache_enabled(xlog'.actor)]_vars

\* a process that read the file once has had a write fail after another of
\* its writes succeeded, and is still dirty
C24_Witness ==
    \E p \in Procs :
        /\ xlog.reads[p] = 1
        /\ xlog.flushed = p
        /\ xlog.call[p] = [fn |-> "save", end |-> "failed"]
        /\ CACHE_DIRTY[p]

\* C23: once no process is inside _save_cache and no write has failed, the
\* cache file holds exactly the in-memory map of the process whose write
\* completed last
C23_LastWriterWins ==
    (/\ \A p \in Procs : xpc[p] = "idle"
     /\ ~xlog.failed
     /\ xlog.flushed # 0
     /\ ~CACHE_DIRTY[xlog.flushed])
    => cache_file.text = Dumps(CACHE_DATA[xlog.flushed])

\* C25: over the runs of one day with FORCE_GEMINI and FORCE_GEMINI_REFRESH
\* unset, a run calls rank_batch at most once, never when the day's cache
\* yields data and never once the marker exists; the marker exists only after
\* a rank_batch call succeeded; and rank_batch succeeds at most once in the day
C25_OneSuccessPerDay ==
    ~llog.forced =>
        /\ lrun.pc # "idle" => lrun.calls <= 1
        /\ lrun.pc = "rank" => ~YieldsData(llm_cache, lrun) /\ ~llm_done
        /\ llm_done => llog.successes >= 1
        /\ llog.successes <= 1

\* C26: a call issues at most RSS_RETRIES + 1 = 3 requests and none after the
\* first successful one; once the last attempt has failed
\* _fetch_feed_with_retries raises RuntimeError; fetch_rss ends, by returning,
\* and what it returns is [] whenever _fetch_feed_with_retries raised
C26_BoundedRetries ==
    /\ [](/\ rss.requests <= RSS_RETRIES + 1
          /\ rss.requests <= 3
          /\ rss.ok_at # 0 => rss.requests = rss.ok_at
          /\ (rss.failed = RSS_RETRIES + 1 /\ rss.pc \in {"raised", "done"})
                => rss.exc = "RuntimeError"
          /\ rss.exc = "RuntimeError" => rss.failed = RSS_RETRIES + 1
          /\ (rss.pc = "done" /\ rss.ok_at = 0) => rss.ret = <<>>)
    /\ <>(rss.pc = "done")

\* three requests failed and fetch_rss returned []
C26_Witness ==
    /\ rss.pc = "done"
    /\ rss.requests = 3
    /\ rss.failed = 3
    /\ rss.exc = "RuntimeError"
    /\ rss.ret = <<>>

\* C29: score_item returns primary "misc" exactly when none of the infra,
\* invest, models and geopol keyword lists matches the text; otherwise primary
\* is one of the four whose hit count is the largest of the four; and the
\* score lies within 0..100
C29_PrimaryAndScore ==
    Returned("score_item") =>
        LET h == Hits(TextOf(call.title, call.summary))
            four == {"infra", "invest", "models", "geopol"}
            none == \A c \in four : h[c] = 0
        IN /\ (ret.primary = "misc") <=> none
           /\ ~none => /\ ret.primary \in four
                       /\ \A c \in four : h[ret.primary] >= h[c]
           /\ ret.score \in 0..100

\* number of X items in a list
CountX(items) == Cardinality({i \in 1..Len(items) : IsX(items[i])})

\* C30: apply_llm_results returns at most 15 items in non-increasing score
\* order; unless it ran out of non-X items to replace, the result holds at
\* least min(MIN_X_ITEMS, number of X candidates) X items; and every
\* replacement removed a non-X item whose score no non-X item still in the
\* list undercut
C30_CapOrderAndXQuota ==
    Returned("apply_llm_results") =>
        LET items == ret.items
            removed == ret.removed
        IN /\ Len(items) <= 15
           /\ \A i \in 1..(Len(items) - 1) : items[i].score >= items[i + 1].score
           /\ \/ CountX(items) >= Min(call.min_x, CountX(call.candidates))
              \/ \A i \in 1..Len(items) : IsX(items[i])
           /\ \A k \in 1..Len(removed) :
                 /\ ~IsX(removed[k])
                 /\ \A j \in (k + 1)..Len(removed) : removed[k].score <= removed[j].score
                 /\ \A i \in 1..Len(items) :
                       ~IsX(items[i]) => removed[k].score <= items[i].score

\* two X items from beyond the fifteenth place replaced two non-X items
C30_Witness ==
    /\ Returned("apply_llm_results")
    /\ Len(ret.items) = 15
    /\ Len(ret.removed) = 2
    /\ CountX(ret.items) = 2
    /\ ret.removed[1].score < ret.removed[2].score

=============================================================================
